---- MODULE Spec2Model ----
(***************************************************************************)
(* Pizza order saga: order service, outbox relay, payment service and its  *)
(* circuit breaker.                                                        *)
(*                                                                         *)
(* Database model.  Every service owns ONE DatabaseManager and therefore   *)
(* ONE psycopg2 connection (autocommit = False) that all of its threads    *)
(* share.  A connection carries one open transaction: statements of every  *)
(* thread of the service go into it, commit() makes all of them durable    *)
(* and rollback() discards all of them.  The committed tables are what     *)
(* other processes (the relay, the other services) read; a thread of the   *)
(* owning service reads the committed tables overlaid with the pending     *)
(* writes of its connection.                                               *)
(*                                                                         *)
(* Modelling assumptions: an SQL statement fails only on the constraint    *)
(* violations named here, or because the connection's transaction is       *)
(* aborted: a refused statement leaves the transaction aborted until the   *)
(* next rollback, statements of every thread raise meanwhile and a commit  *)
(* rolls back.  created_at order of outbox rows is insertion (id) order.   *)
(***************************************************************************)
EXTENDS Integers, Sequences, FiniteSets, TLC

\* ------------------------------------------------------------------ bounds
MaxOrders == 2
MaxReq == 2
MaxOps == 3
MaxCrashes == 1

MaxPayments == 2
MaxRacingPayments == 1
MaxPayReq == 1
MaxDeliveries == 3

MaxNotifyDeliveries == 4
MaxSendRequests == 1

MaxMessages == 4

MaxResolved == 2

MaxItems == 2
MaxQuantity == 2
MaxCalcOrders == 1
MaxMenuUpdates == 1

\* max_messages of a process_events call: the services pass 10, run here with 2
max_messages == 2

\* BATCH_SIZE of the relay: an environment option (default 10), run here with 2
batch_size == 2

\* ------------------------------------------------------- program constants
\* MAX_RETRIES of the relay (default)
max_retries == 3

OrderIds == 1..MaxOrders
Req == 1..MaxReq
valid_statuses == {"PENDING", "PROCESSING", "PAID", "FAILED", "COMPLETED"}

VARIABLES
    orders,       \* orders.orders, committed: order id -> status, "NONE" = no row
    items,        \* orders.order_items, committed: order ids that have item rows
    outbox,       \* orders.outbox_events, committed: sequence of rows in id order
    pend,         \* open transaction of the order service's connection
    nextEventId,  \* sequence behind outbox_events.id
    opsStarted,   \* number of operations started (bounds the run)
    req,          \* HTTP request threads of the order service
    cons,         \* consumer thread of the order service
    aborted,      \* order ids whose create_order_with_outbox raised
    relay,        \* the outbox processor process
    orderEvents,  \* the order-events topic: outbox ids in publish order
    crashes,      \* number of relay crashes so far
    cb,           \* the payment service's CircuitBreaker object
    lastCall,     \* the CircuitBreaker method called last, and what it returned
    run,          \* record_failure calls since the breaker was CLOSED with
                  \* failure_count = 0, -1 once a record_success came in between
    payments,     \* payments table, committed: payment id -> row
    attempts,     \* payment_attempts table, committed: attempt id -> row
    ppend,        \* open transaction of the payment service's connection
    nextPaymentId,   \* payment ids handed out by generate_id
    nextAttemptId,   \* sequence behind payment_attempts.id
    deliveries,   \* per order: OrderCreated deliveries and POST /payments handled
    creator,      \* consumer thread (0) and HTTP threads of the payment service
    pthread,      \* process_payment_async threads, one per payment id
    providerCalls,   \* per order: HTTP requests the provider received
    provider200,  \* per order: HTTP 200 answers of the provider
    paymentEvents,   \* the payment-events topic
    notifications,   \* notifications.notifications, committed: id -> row
    nextNotificationId,  \* notification ids handed out by generate_id
    nthread,      \* consumer thread of the notification service
    ndeliveries,  \* per (order, event type): deliveries to the notification service
    log,          \* a subscribed topic: per offset, whether the handler raises on it
    kc,           \* a KafkaConsumer and the process_events loop that reads it
    resolved,     \* events handed to the three handlers with what each resolved
    menu,         \* frontend.pizzas: pizza id -> price, 0 = no row
    co,           \* a create_order request of the order service, with its data
    orderRows,    \* committed orders with their total and their order_items rows
    menuUpdates,  \* number of PUT /api/v1/menu/<pizza_id> so far
    running,      \* OutboxProcessor.running: FALSE once a signal was handled
    npend,        \* open transaction of the notification service's connection
    sender,       \* send_notification_async threads, one per notification id
    delivery_attempts,  \* notifications.delivery_attempts, committed rows
    aged          \* outbox ids whose processed_at is older than the retention period

orderSide == <<orders, items, outbox, pend, nextEventId, opsStarted, req, cons,
               aborted, relay, orderEvents, crashes>>

breakerSide == <<cb, lastCall, run>>

paySide == <<payments, attempts, ppend, nextPaymentId, nextAttemptId, deliveries,
             creator, pthread, providerCalls, provider200, paymentEvents>>

notifySide == <<notifications, nextNotificationId, nthread, ndeliveries>>

consumerSide == <<log, kc>>

spellSide == <<resolved>>

calcSide == <<menu, co, orderRows, menuUpdates>>

signalSide == <<running>>

dispatchSide == <<npend, sender, delivery_attempts>>

gcSide == <<aged>>

vars == <<orderSide, breakerSide, paySide, notifySide, consumerSide, spellSide, calcSide, signalSide, dispatchSide, gcSide>>

\* --------------------------------------------------------------- database
NoWrite == "-"

EmptyPend == [orders |-> [o \in OrderIds |-> NoWrite], items |-> {}, outbox |-> <<>>]

\* what a thread of the order service reads through the shared connection
ViewStatus(o) == IF pend.orders[o] # NoWrite THEN pend.orders[o] ELSE orders[o]

\* connection.commit(): every pending write of the connection becomes durable
DbCommit ==
    /\ orders' = [o \in OrderIds |-> IF pend.orders[o] # NoWrite THEN pend.orders[o] ELSE orders[o]]
    /\ items' = items \cup pend.items
    /\ outbox' = outbox \o pend.outbox
    /\ pend' = EmptyPend

\* connection.rollback(): every pending write of the connection is discarded
DbRollback ==
    /\ pend' = EmptyPend
    /\ UNCHANGED <<orders, items, outbox>>

\* INSERT INTO orders.outbox_events (aggregate_id, event_type, event_data)
OutboxRow(agg, type, status, reason, big) ==
    [id |-> nextEventId, aggregate_id |-> agg, event_type |-> type,
     newStatus |-> status, reason |-> reason, big |-> big,
     processed |-> FALSE, processed_at |-> FALSE]

InsertOutbox(agg, type, status, reason, big) ==
    /\ pend' = [pend EXCEPT !.outbox = Append(@, OutboxRow(agg, type, status, reason, big))]
    /\ nextEventId' = nextEventId + 1
    /\ UNCHANGED <<orders, items, outbox>>

IdleThread ==
    [pc |-> "idle", order |-> 0, status |-> "-", reason |-> "", bad |-> FALSE, big |-> FALSE]

UsedOrderIds ==
    {o \in OrderIds : orders[o] # "NONE" \/ pend.orders[o] # NoWrite \/ o \in aborted}
      \cup {req[t].order : t \in {u \in Req : req[u].pc \in {"c_items", "c_outbox", "c_commit", "c_abort"}}}

\* --------------------------------------------- POST /api/v1/orders (create)
\* create_order_with_outbox, statement 1: INSERT INTO orders.orders
\* bad: an item of the request has no 'quantity' (line 314 raises KeyError)
\* big: the serialized event exceeds the producer's size limit
CreateOrderInsert(t, o, bad, big) ==
    /\ req[t].pc = "idle"
    /\ opsStarted < MaxOps
    /\ o \notin UsedOrderIds
    /\ \A p \in OrderIds : p < o => p \in UsedOrderIds
    /\ opsStarted' = opsStarted + 1
    /\ pend' = [pend EXCEPT !.orders[o] = "PENDING"]
    /\ req' = [req EXCEPT ![t] = [pc |-> "c_items", order |-> o, status |-> "PENDING", reason |-> "",
                                  bad |-> bad, big |-> big]]
    /\ UNCHANGED <<orders, items, outbox, nextEventId, cons, aborted, relay, orderEvents, crashes>>
    /\ UNCHANGED <<breakerSide, paySide, notifySide, consumerSide, spellSide, calcSide, signalSide, dispatchSide, gcSide>>

\* statement 2: build the item tuples and executemany; a KeyError inside the
\* cursor block makes get_cursor roll the connection back
CreateOrderItems(t) ==
    /\ req[t].pc = "c_items"
    /\ IF req[t].bad
         THEN /\ DbRollback
              /\ req' = [req EXCEPT ![t].pc = "c_abort"]
         ELSE /\ pend' = [pend EXCEPT !.items = @ \cup {req[t].order}]
              /\ req' = [req EXCEPT ![t].pc = "c_outbox"]
              /\ UNCHANGED <<orders, items, outbox>>
    /\ UNCHANGED <<nextEventId, opsStarted, cons, aborted, relay, orderEvents, crashes>>
    /\ UNCHANGED <<breakerSide, paySide, notifySide, consumerSide, spellSide, calcSide, signalSide, dispatchSide, gcSide>>

\* the exception reaches transaction(): second rollback, then the 500 answer
CreateOrderAbort(t) ==
    /\ req[t].pc = "c_abort"
    /\ DbRollback
    /\ aborted' = aborted \cup {req[t].order}
    /\ req' = [req EXCEPT ![t] = IdleThread]
    /\ UNCHANGED <<nextEventId, opsStarted, cons, relay, orderEvents, crashes>>
    /\ UNCHANGED <<breakerSide, paySide, notifySide, consumerSide, spellSide, calcSide, signalSide, dispatchSide, gcSide>>

\* statement 3: INSERT INTO orders.outbox_events ... 'OrderCreated'
CreateOrderOutbox(t) ==
    /\ req[t].pc = "c_outbox"
    /\ InsertOutbox(req[t].order, "OrderCreated", "PENDING", "", req[t].big)
    /\ req' = [req EXCEPT ![t].pc = "c_commit"]
    /\ UNCHANGED <<opsStarted, cons, aborted, relay, orderEvents, crashes>>
    /\ UNCHANGED <<breakerSide, paySide, notifySide, consumerSide, spellSide, calcSide, signalSide, dispatchSide, gcSide>>

\* leaving `with self.db.transaction()`: connection.commit()
CreateOrderCommit(t) ==
    /\ req[t].pc = "c_commit"
    /\ DbCommit
    /\ req' = [req EXCEPT ![t] = IdleThread]
    /\ UNCHANGED <<nextEventId, opsStarted, cons, aborted, relay, orderEvents, crashes>>
    /\ UNCHANGED <<breakerSide, paySide, notifySide, consumerSide, spellSide, calcSide, signalSide, dispatchSide, gcSide>>

\* ids a client or an event can name: the id of an order being created is
\* generated by the server and answered only after create_order has returned
InFlightCreates == {req[t].order : t \in {u \in Req : req[u].pc \in {"c_items", "c_outbox", "c_commit", "c_abort"}}}

\* ------------------------------------------ update_order_status_internal
\* UPDATE orders.orders SET status = new_status WHERE id = order_id; the
\* statement carries no predicate on the current status.  rowcount is 1 when
\* the connection sees a row for the id.
UpdateStatusStmt(o, s) ==
    IF ViewStatus(o) # "NONE"
      THEN pend' = [pend EXCEPT !.orders[o] = s]
      ELSE pend' = pend

\* ------------------------------------- PUT /api/v1/orders/<order_id>/status
\* update_order_status: validation, then update_order_status_internal's UPDATE.
\* rowcount = 0 returns False from inside the transaction block, which still
\* leaves it through commit().
PutStatusUpdate(t, o, s, big) ==
    /\ req[t].pc = "idle"
    /\ opsStarted < MaxOps
    /\ s \in valid_statuses
    /\ o \notin InFlightCreates
    /\ opsStarted' = opsStarted + 1
    /\ UpdateStatusStmt(o, s)
    /\ req' = [req EXCEPT ![t] = [pc |-> IF ViewStatus(o) # "NONE" THEN "u_outbox" ELSE "u_notfound",
                                  order |-> o, status |-> s, reason |-> "",
                                  bad |-> FALSE, big |-> big]]
    /\ UNCHANGED <<orders, items, outbox, nextEventId, cons, aborted, relay, orderEvents, crashes>>
    /\ UNCHANGED <<breakerSide, paySide, notifySide, consumerSide, spellSide, calcSide, signalSide, dispatchSide, gcSide>>

\* INSERT INTO orders.outbox_events ... 'OrderStatusChanged'
PutStatusOutbox(t) ==
    /\ req[t].pc = "u_outbox"
    /\ InsertOutbox(req[t].order, "OrderStatusChanged", req[t].status, req[t].reason, req[t].big)
    /\ req' = [req EXCEPT ![t].pc = "u_commit"]
    /\ UNCHANGED <<opsStarted, cons, aborted, relay, orderEvents, crashes>>
    /\ UNCHANGED <<breakerSide, paySide, notifySide, consumerSide, spellSide, calcSide, signalSide, dispatchSide, gcSide>>

PutStatusCommit(t) ==
    /\ req[t].pc \in {"u_commit", "u_notfound"}
    /\ DbCommit
    /\ req' = [req EXCEPT ![t] = IdleThread]
    /\ UNCHANGED <<nextEventId, opsStarted, cons, aborted, relay, orderEvents, crashes>>
    /\ UNCHANGED <<breakerSide, paySide, notifySide, consumerSide, spellSide, calcSide, signalSide, dispatchSide, gcSide>>

\* ------------------------------------------- consumer thread (payment-events)
\* status that handle_order_paid / handle_payment_failed write
EventStatus(event_type) == IF event_type = "OrderPaid" THEN "PAID" ELSE "FAILED"

\* handle_order_paid passes 'Payment successful'; handle_payment_failed passes
\* event_data.get('failure_reason', ...), written here as "failure_reason"
EventReason(event_type) ==
    IF event_type = "OrderPaid" THEN "Payment successful" ELSE "failure_reason"

\* event types that arrive on payment-events; "PaymentRefunded" stands for any
\* type other than the two the handler knows
PaymentEventTypes == {"OrderPaid", "PaymentFailed", "PaymentRefunded"}

\* handle_payment_event for OrderPaid / PaymentFailed: the UPDATE of
\* update_order_status_internal.  Any other event_type is logged and dropped.
HandlePaymentEvent(event_type, o) ==
    /\ cons.pc = "idle"
    /\ opsStarted < MaxOps
    /\ event_type \in PaymentEventTypes
    /\ o \notin InFlightCreates
    /\ opsStarted' = opsStarted + 1
    /\ IF event_type \in {"OrderPaid", "PaymentFailed"}
         THEN /\ UpdateStatusStmt(o, EventStatus(event_type))
              /\ cons' = [pc |-> IF ViewStatus(o) # "NONE" THEN "u_outbox" ELSE "u_notfound",
                          order |-> o, status |-> EventStatus(event_type),
                          reason |-> EventReason(event_type), bad |-> FALSE, big |-> FALSE]
         ELSE /\ pend' = pend
              /\ cons' = cons
    /\ UNCHANGED <<orders, items, outbox, nextEventId, req, aborted, relay, orderEvents, crashes>>
    /\ UNCHANGED <<breakerSide, paySide, notifySide, consumerSide, spellSide, calcSide, signalSide, dispatchSide, gcSide>>

ConsumerOutbox ==
    /\ cons.pc = "u_outbox"
    /\ InsertOutbox(cons.order, "OrderStatusChanged", cons.status, cons.reason, cons.big)
    /\ cons' = [cons EXCEPT !.pc = "u_commit"]
    /\ UNCHANGED <<opsStarted, req, aborted, relay, orderEvents, crashes>>
    /\ UNCHANGED <<breakerSide, paySide, notifySide, consumerSide, spellSide, calcSide, signalSide, dispatchSide, gcSide>>

ConsumerCommit ==
    /\ cons.pc \in {"u_commit", "u_notfound"}
    /\ DbCommit
    /\ cons' = [cons EXCEPT !.pc = "saga"]
    /\ UNCHANGED <<nextEventId, opsStarted, req, aborted, relay, orderEvents, crashes>>
    /\ UNCHANGED <<breakerSide, paySide, notifySide, consumerSide, spellSide, calcSide, signalSide, dispatchSide, gcSide>>

\* second transaction of the handler: UPDATE order_saga_state ...; commit()
ConsumerSagaCommit ==
    /\ cons.pc = "saga"
    /\ DbCommit
    /\ cons' = IdleThread
    /\ UNCHANGED <<nextEventId, opsStarted, req, aborted, relay, orderEvents, crashes>>
    /\ UNCHANGED <<breakerSide, paySide, notifySide, consumerSide, spellSide, calcSide, signalSide, dispatchSide, gcSide>>

\* ------------------------------------------------------------ outbox relay
RECURSIVE SelectUnprocessed(_)
SelectUnprocessed(rows) ==
    IF rows = <<>> THEN <<>>
    ELSE IF Head(rows).processed THEN SelectUnprocessed(Tail(rows))
    ELSE <<Head(rows).id>> \o SelectUnprocessed(Tail(rows))

Limit(s, n) == SubSeq(s, 1, IF Len(s) < n THEN Len(s) ELSE n)

get_unprocessed_events_one(limit) == Limit(SelectUnprocessed(outbox), 1)

get_events_whatever_flag(limit) == Limit([i \in 1..Len(outbox) |-> outbox[i].id], limit)

\* SELECT ... WHERE processed = false ORDER BY created_at ASC LIMIT batch_size
get_unprocessed_events(limit) == Limit(SelectUnprocessed(outbox), limit)

RowById(id) == CHOOSE r \in {outbox[i] : i \in 1..Len(outbox)} : r.id = id

\* process_batch: fetch the batch; an empty batch returns 0 and the loop sleeps
ProcessBatch ==
    /\ relay.pc = "sleep"
    /\ running
    /\ get_unprocessed_events(batch_size) # <<>>
    /\ relay' = [pc |-> "next_row", batch |-> get_unprocessed_events(batch_size), attempt |-> 0]
    /\ UNCHANGED <<orders, items, outbox, pend, nextEventId, opsStarted, req, cons, aborted, orderEvents, crashes>>
    /\ UNCHANGED <<breakerSide, paySide, notifySide, consumerSide, spellSide, calcSide, signalSide, dispatchSide, gcSide>>

\* the relay goes on to the next row of the batch, or back to sleep; after a
\* row `if not self.running: break` leaves the batch
NextRow == IF running /\ Len(relay.batch) > 1
             THEN [pc |-> "next_row", batch |-> Tail(relay.batch), attempt |-> 0]
             ELSE [pc |-> "sleep", batch |-> <<>>, attempt |-> 0]

\* for event in unprocessed_events: process_single_event(event) is called for
\* the row at the head of the batch
process_single_event ==
    /\ relay.pc = "next_row"
    /\ relay' = [relay EXCEPT !.pc = "publish"]
    /\ UNCHANGED <<orders, items, outbox, pend, nextEventId, opsStarted, req, cons, aborted, orderEvents, crashes>>
    /\ UNCHANGED <<breakerSide, paySide, notifySide, consumerSide, spellSide, calcSide, signalSide, dispatchSide, gcSide>>

\* publish_event_with_confirmation succeeded: the broker acknowledged the
\* message.  publish_event refuses an event above the size limit.
PublishOk ==
    /\ relay.pc = "publish"
    /\ ~RowById(Head(relay.batch)).big
    /\ orderEvents' = Append(orderEvents, Head(relay.batch))
    /\ relay' = [relay EXCEPT !.pc = "mark"]
    /\ UNCHANGED <<orders, items, outbox, pend, nextEventId, opsStarted, req, cons, aborted, crashes>>
    /\ UNCHANGED <<breakerSide, paySide, notifySide, consumerSide, spellSide, calcSide, signalSide, dispatchSide, gcSide>>

\* publish_event returned False: retry_with_backoff retries, and raises after
\* max_retries attempts; process_single_event then returns False
PublishFail ==
    /\ relay.pc = "publish"
    /\ relay' = IF relay.attempt + 1 < max_retries
                  THEN [relay EXCEPT !.attempt = @ + 1]
                  ELSE NextRow
    /\ UNCHANGED <<orders, items, outbox, pend, nextEventId, opsStarted, req, cons, aborted, orderEvents, crashes>>
    /\ UNCHANGED <<breakerSide, paySide, notifySide, consumerSide, spellSide, calcSide, signalSide, dispatchSide, gcSide>>

MarkRowNoTimestamp(row) == [row EXCEPT !.processed = TRUE]

\* UPDATE orders.outbox_events SET processed = true, processed_at = now
MarkRow(row) == [row EXCEPT !.processed = TRUE, !.processed_at = TRUE]

\* mark_event_processed(event_id), in the relay's own transaction
mark_event_processed ==
    /\ relay.pc = "mark"
    /\ outbox' = [i \in 1..Len(outbox) |->
                    IF outbox[i].id = Head(relay.batch) THEN MarkRow(outbox[i]) ELSE outbox[i]]
    /\ relay' = NextRow
    /\ UNCHANGED <<orders, items, pend, nextEventId, opsStarted, req, cons, aborted, orderEvents, crashes>>
    /\ UNCHANGED <<breakerSide, paySide, notifySide, consumerSide, spellSide, calcSide, signalSide, dispatchSide, gcSide>>

\* signal_handler on SIGTERM or SIGINT, at any point of the run loop
signal_handler ==
    /\ running
    /\ relay.pc # "stopped"
    /\ running' = FALSE
    /\ UNCHANGED <<orderSide, breakerSide, paySide, notifySide, consumerSide, spellSide, calcSide, dispatchSide, gcSide>>

\* run: `while self.running` fails after the sleep, "Outbox Processor stopped"
RelayStopped ==
    /\ relay.pc = "sleep"
    /\ ~running
    /\ relay' = [relay EXCEPT !.pc = "stopped"]
    /\ UNCHANGED <<orders, items, outbox, pend, nextEventId, opsStarted, req, cons, aborted, orderEvents, crashes>>
    /\ UNCHANGED <<breakerSide, paySide, notifySide, consumerSide, spellSide, calcSide, signalSide, dispatchSide, gcSide>>

\* the relay process dies and is restarted: its batch is lost, the tables stay
RelayCrash ==
    /\ relay.pc # "sleep"
    /\ crashes < MaxCrashes
    /\ crashes' = crashes + 1
    /\ relay' = [pc |-> "sleep", batch |-> <<>>, attempt |-> 0]
    /\ UNCHANGED <<orders, items, outbox, pend, nextEventId, opsStarted, req, cons, aborted, orderEvents>>
    /\ UNCHANGED <<breakerSide, paySide, notifySide, consumerSide, spellSide, calcSide, signalSide, dispatchSide, gcSide>>

\* the relay process dies and is started again: __main__ runs
\* cleanup_processed_events before run
RelayRestart ==
    /\ relay.pc \notin {"sleep", "cleanup"}
    /\ crashes < MaxCrashes
    /\ crashes' = crashes + 1
    /\ relay' = [pc |-> "cleanup", batch |-> <<>>, attempt |-> 0]
    /\ UNCHANGED <<orders, items, outbox, pend, nextEventId, opsStarted, req, cons, aborted, orderEvents>>
    /\ UNCHANGED <<breakerSide, paySide, notifySide, consumerSide, spellSide, calcSide, signalSide, dispatchSide, gcSide>>

\* the clock passes processed_at + retention_hours of every row marked so far
RetentionElapses ==
    /\ aged' = aged \cup {outbox[i].id : i \in {j \in 1..Len(outbox) : outbox[j].processed_at}}
    /\ aged' # aged
    /\ UNCHANGED <<orderSide, breakerSide, paySide, notifySide, consumerSide, spellSide, calcSide, signalSide, dispatchSide>>

ProcessedWhenever(row) == row.processed

\* WHERE processed = true AND processed_at < NOW() - INTERVAL '%s hours'
\* (a NULL processed_at compares as unknown)
Expired(row) == row.processed /\ row.processed_at /\ row.id \in aged

Kept(row) == ~Expired(row)

\* cleanup_processed_events: the DELETE and its commit, on the relay's own
\* connection
cleanup_processed_events ==
    /\ relay.pc = "cleanup"
    /\ outbox' = SelectSeq(outbox, Kept)
    /\ relay' = [relay EXCEPT !.pc = "sleep"]
    /\ UNCHANGED <<orders, items, pend, nextEventId, opsStarted, req, cons, aborted, orderEvents, crashes>>
    /\ UNCHANGED <<breakerSide, paySide, notifySide, consumerSide, spellSide, calcSide, signalSide, dispatchSide, gcSide>>

\* ---------------------------------------------------------- CircuitBreaker
\* CB_FAILURE_THRESHOLD, CB_SUCCESS_THRESHOLD (defaults)
failure_threshold == 5
success_threshold == 3

\* guard on record_failure in the breaker's own specification
MaxFailureCount == 7

\* __init__.  timer abstracts datetime.now() against last_failure_time:
\* "none" last_failure_time is None, "now" last_failure_time is this instant,
\* "within" last_failure_time < now <= last_failure_time + timeout,
\* "past" now > last_failure_time + timeout
CircuitBreaker == [state |-> "CLOSED", failure_count |-> 0, success_count |-> 0, timer |-> "none"]

\* can_execute: the returned value
can_execute(b) ==
    CASE b.state = "CLOSED" -> TRUE
      [] b.state = "OPEN" -> b.timer = "past"
      [] b.state = "HALF_OPEN" -> TRUE

\* can_execute: the object after the call
after_can_execute(b) ==
    IF b.state = "OPEN" /\ b.timer = "past"
      THEN [b EXCEPT !.state = "HALF_OPEN", !.success_count = 0]
      ELSE b

record_success(b) ==
    IF b.state = "HALF_OPEN"
      THEN IF b.success_count + 1 >= success_threshold
             THEN [b EXCEPT !.success_count = @ + 1, !.state = "CLOSED", !.failure_count = 0]
             ELSE [b EXCEPT !.success_count = @ + 1]
      ELSE [b EXCEPT !.failure_count = 0]

record_failure_above_threshold(b) ==
    IF b.failure_count + 1 > failure_threshold
      THEN [b EXCEPT !.failure_count = @ + 1, !.timer = "now", !.state = "OPEN"]
      ELSE [b EXCEPT !.failure_count = @ + 1, !.timer = "now"]

record_failure(b) ==
    IF b.failure_count + 1 >= failure_threshold
      THEN [b EXCEPT !.failure_count = @ + 1, !.timer = "now", !.state = "OPEN"]
      ELSE [b EXCEPT !.failure_count = @ + 1, !.timer = "now"]

\* the history variable run after a call that leaves the breaker as b
RunAfter(method, b) ==
    IF b.state = "CLOSED" /\ b.failure_count = 0 THEN 0
    ELSE IF method = "record_success" \/ run < 0 THEN -1
    ELSE IF method = "record_failure" THEN run + 1
    ELSE run

CallCanExecute ==
    /\ cb' = after_can_execute(cb)
    /\ lastCall' = [method |-> "can_execute", returned |-> can_execute(cb)]
    /\ run' = RunAfter("can_execute", cb')
    /\ UNCHANGED <<orderSide, paySide, notifySide, consumerSide, spellSide, calcSide, signalSide, dispatchSide, gcSide>>

CallRecordSuccess ==
    /\ cb' = record_success(cb)
    /\ lastCall' = [method |-> "record_success", returned |-> TRUE]
    /\ run' = RunAfter("record_success", cb')
    /\ UNCHANGED <<orderSide, paySide, notifySide, consumerSide, spellSide, calcSide, signalSide, dispatchSide, gcSide>>

CallRecordFailure ==
    /\ cb.failure_count < MaxFailureCount
    /\ cb' = record_failure(cb)
    /\ lastCall' = [method |-> "record_failure", returned |-> TRUE]
    /\ run' = RunAfter("record_failure", cb')
    /\ UNCHANGED <<orderSide, paySide, notifySide, consumerSide, spellSide, calcSide, signalSide, dispatchSide, gcSide>>

\* GET /api/v1/payments/circuit-breaker/status: the response carries state,
\* failureCount, successCount and canExecute, the last one by calling
\* can_execute on the service's breaker
get_circuit_breaker_status ==
    /\ cb' = after_can_execute(cb)
    /\ lastCall' = [method |-> "get_circuit_breaker_status", returned |-> can_execute(cb)]
    /\ run' = RunAfter("get_circuit_breaker_status", cb')
    /\ UNCHANGED <<orderSide, paySide, notifySide, consumerSide, spellSide, calcSide, signalSide, dispatchSide, gcSide>>

\* time passes after a record_failure, no more than `timeout` seconds
TimePasses ==
    /\ cb.timer = "now"
    /\ cb' = [cb EXCEPT !.timer = "within"]
    /\ UNCHANGED <<lastCall, run>>
    /\ UNCHANGED <<orderSide, paySide, notifySide, consumerSide, spellSide, calcSide, signalSide, dispatchSide, gcSide>>

\* more than `timeout` seconds have passed without a record_failure
TimeoutElapses ==
    /\ cb.timer = "within"
    /\ cb' = [cb EXCEPT !.timer = "past"]
    /\ UNCHANGED <<lastCall, run>>
    /\ UNCHANGED <<orderSide, paySide, notifySide, consumerSide, spellSide, calcSide, signalSide, dispatchSide, gcSide>>

\* ---------------------------------------------------------- payment service
\* PAYMENT_MAX_RETRIES (default)
max_retry_attempts == 3

\* payment ids: those the service hands out in every run, and those it hands
\* out in the runs with requests racing for one order
MaxPaymentIds == MaxPayments + MaxRacingPayments
PaymentIds == 1..MaxPaymentIds
AttemptIds == 1..(MaxPaymentIds * max_retry_attempts)
Creators == 0..MaxPayReq

NoPayment == [order |-> 0, status |-> "NONE", failure_reason |-> ""]
NoAttempt == [payment_id |-> 0, attempt_number |-> 0, status |-> "NONE"]
KeepPayment == [order |-> 0, status |-> NoWrite, failure_reason |-> ""]
KeepAttempt == [payment_id |-> 0, attempt_number |-> 0, status |-> NoWrite]

\* failed: a statement was refused and the connection's transaction is aborted
\* until a rollback; every statement raises meanwhile, a commit rolls back
EmptyPayPend == [payments |-> [p \in PaymentIds |-> KeepPayment], attempts |-> [a \in AttemptIds |-> KeepAttempt], failed |-> FALSE]

IdleCreator == [pc |-> "idle", order |-> 0, pid |-> 0]
NoThread == [pc |-> "none", attempt |-> 0, attempt_id |-> 0, ok |-> FALSE]

\* rows as the threads of the payment service read them
PaymentView(p) == IF ppend.payments[p].status # NoWrite THEN ppend.payments[p] ELSE payments[p]
AttemptView(a) == IF ppend.attempts[a].status # NoWrite THEN ppend.attempts[a] ELSE attempts[a]

PayCommit ==
    /\ payments' = IF ppend.failed THEN payments ELSE [p \in PaymentIds |-> PaymentView(p)]
    /\ attempts' = IF ppend.failed THEN attempts ELSE [a \in AttemptIds |-> AttemptView(a)]
    /\ ppend' = EmptyPayPend

PayRollback ==
    /\ ppend' = EmptyPayPend
    /\ UNCHANGED <<payments, attempts>>

get_payment_by_order_id_none(o) == FALSE

\* SELECT * FROM payments WHERE order_id = %s: is there a row
get_payment_by_order_id(o) == \E p \in PaymentIds : PaymentView(p).status # "NONE" /\ PaymentView(p).order = o

\* SELECT * FROM payments WHERE id = %s: is there a row
get_payment_by_id(p) == PaymentView(p).status # "NONE"

OrderIdNeverTaken(o) == FALSE

\* the unique constraint on payments.order_id refuses the INSERT
OrderIdTaken(o) == \E p \in PaymentIds : PaymentView(p).status # "NONE" /\ PaymentView(p).order = o

RECURSIVE SumUpTo(_, _)
SumUpTo(f, n) == IF n = 0 THEN 0 ELSE f[n] + SumUpTo(f, n - 1)

TotalDeliveries == SumUpTo(deliveries, MaxOrders)

\* the idempotency gate both entry points share: look the order up, return when
\* a payment is there, otherwise pick a payment id and go on to create the row.
\* A lookup that raises is rolled back by get_cursor and ends the handler.
GateWithin(c, o, limit) ==
    /\ creator[c].pc = "idle"
    /\ TotalDeliveries < MaxDeliveries
    /\ ppend.failed \/ get_payment_by_order_id(o) \/ nextPaymentId <= limit
    /\ deliveries' = [deliveries EXCEPT ![o] = @ + 1]
    /\ ppend' = IF ppend.failed THEN EmptyPayPend ELSE ppend
    /\ IF ppend.failed \/ get_payment_by_order_id(o)
         THEN UNCHANGED <<creator, nextPaymentId>>
         ELSE /\ creator' = [creator EXCEPT ![c] = [pc |-> "insert", order |-> o, pid |-> nextPaymentId]]
              /\ nextPaymentId' = nextPaymentId + 1
    /\ UNCHANGED <<payments, attempts, nextAttemptId, pthread, providerCalls, provider200, paymentEvents>>
    /\ UNCHANGED <<orderSide, breakerSide, notifySide, consumerSide, spellSide, calcSide, signalSide, dispatchSide, gcSide>>

Gate(c, o) == GateWithin(c, o, MaxPayments)

\* consumer thread: handle_order_event -> handle_order_created
handle_order_created(o) ==
    /\ creator[0].pc = "idle"
    /\ Gate(0, o)

\* HTTP thread: POST /api/v1/payments with an amount > 0
process_payment(t, o) ==
    /\ t # 0
    /\ Gate(t, o)

\* the same route in the runs in which one more payment id is handed out
process_payment_racing(t, o) ==
    /\ t # 0
    /\ GateWithin(t, o, MaxPaymentIds)

\* create_payment_record: INSERT INTO payments ... status PENDING.  A refused
\* INSERT, or any INSERT on an aborted transaction, leaves the transaction
\* aborted and raises inside the cursor block.
create_payment_record(c) ==
    /\ creator[c].pc = "insert"
    /\ IF ppend.failed \/ OrderIdTaken(creator[c].order)
         THEN /\ ppend' = [ppend EXCEPT !.failed = TRUE]
              /\ creator' = [creator EXCEPT ![c].pc = "insert_failed"]
         ELSE /\ ppend' = [ppend EXCEPT !.payments[creator[c].pid] = [order |-> creator[c].order, status |-> "PENDING", failure_reason |-> ""]]
              /\ creator' = [creator EXCEPT ![c].pc = "commit"]
    /\ UNCHANGED <<payments, attempts, nextPaymentId, nextAttemptId, deliveries, pthread, providerCalls, provider200, paymentEvents>>
    /\ UNCHANGED <<orderSide, breakerSide, notifySide, consumerSide, spellSide, calcSide, signalSide, dispatchSide, gcSide>>

\* the exception reaches get_cursor: connection.rollback()
CreatePaymentRollback(c) ==
    /\ creator[c].pc = "insert_failed"
    /\ PayRollback
    /\ creator' = [creator EXCEPT ![c].pc = "abort"]
    /\ UNCHANGED <<nextPaymentId, nextAttemptId, deliveries, pthread, providerCalls, provider200, paymentEvents>>
    /\ UNCHANGED <<orderSide, breakerSide, notifySide, consumerSide, spellSide, calcSide, signalSide, dispatchSide, gcSide>>

\* the exception leaves transaction(): second rollback; the handler ends
\* without starting a thread
CreatePaymentAbort(c) ==
    /\ creator[c].pc = "abort"
    /\ PayRollback
    /\ creator' = [creator EXCEPT ![c] = IdleCreator]
    /\ UNCHANGED <<nextPaymentId, nextAttemptId, deliveries, pthread, providerCalls, provider200, paymentEvents>>
    /\ UNCHANGED <<orderSide, breakerSide, notifySide, consumerSide, spellSide, calcSide, signalSide, dispatchSide, gcSide>>

\* transaction() commits, then threading.Thread(target=process_payment_async)
CreatePaymentCommit(c) ==
    /\ creator[c].pc = "commit"
    /\ PayCommit
    /\ pthread' = [pthread EXCEPT ![creator[c].pid] = [NoThread EXCEPT !.pc = "start"]]
    /\ creator' = [creator EXCEPT ![c] = IdleCreator]
    /\ UNCHANGED <<nextPaymentId, nextAttemptId, deliveries, providerCalls, provider200, paymentEvents>>
    /\ UNCHANGED <<orderSide, breakerSide, notifySide, consumerSide, spellSide, calcSide, signalSide, dispatchSide, gcSide>>

\* UPDATE payments SET status = %s, failure_reason = %s ... WHERE id = %s
\* (failure_reason "" is NULL, "error" is the text of the exception)
UpdatePaymentStmt(p, status, failure_reason) ==
    IF get_payment_by_id(p)
      THEN ppend' = [ppend EXCEPT !.payments[p] =
                        [PaymentView(p) EXCEPT !.status = status, !.failure_reason = failure_reason]]
      ELSE ppend' = ppend

\* process_payment_async: update_payment_status(PROCESSING), the UPDATE
StartProcessing(p) ==
    /\ pthread[p].pc = "start"
    /\ IF ppend.failed
         THEN /\ ppend' = EmptyPayPend
              /\ pthread' = [pthread EXCEPT ![p].pc = "fail_update"]
         ELSE /\ UpdatePaymentStmt(p, "PROCESSING", "")
              /\ pthread' = [pthread EXCEPT ![p].pc = "start_commit"]
    /\ UNCHANGED <<payments, attempts, nextPaymentId, nextAttemptId, deliveries, creator, providerCalls, provider200, paymentEvents>>
    /\ UNCHANGED <<orderSide, breakerSide, notifySide, consumerSide, spellSide, calcSide, signalSide, dispatchSide, gcSide>>

\* ... and its commit; retry_with_backoff then makes the first attempt
StartProcessingCommit(p) ==
    /\ pthread[p].pc = "start_commit"
    /\ PayCommit
    /\ pthread' = [pthread EXCEPT ![p].pc = "check"]
    /\ UNCHANGED <<nextPaymentId, nextAttemptId, deliveries, creator, providerCalls, provider200, paymentEvents>>
    /\ UNCHANGED <<orderSide, breakerSide, notifySide, consumerSide, spellSide, calcSide, signalSide, dispatchSide, gcSide>>

AfterRaiseOneMore(th) ==
    IF th.attempt + 1 <= max_retry_attempts
      THEN [th EXCEPT !.pc = "check", !.attempt = @ + 1, !.ok = FALSE]
      ELSE [th EXCEPT !.pc = "fail_update", !.attempt = @ + 1, !.ok = FALSE]

\* retry_with_backoff after an attempt raised: sleep and call again, or
\* re-raise after the last of max_attempts attempts; attempt counts the
\* attempts that raised
AfterRaise(th) ==
    IF th.attempt + 1 < max_retry_attempts
      THEN [th EXCEPT !.pc = "check", !.attempt = @ + 1, !.ok = FALSE]
      ELSE [th EXCEPT !.pc = "fail_update", !.attempt = @ + 1, !.ok = FALSE]

AfterRefusalCallsOut(th) == [th EXCEPT !.pc = "response"]

\* raise Exception("... circuit breaker OPEN") at the start of the attempt:
\* the attempt ends like any attempt that raised
AfterRefusal(th) == AfterRaise(th)

\* attempt_payment_processing: the admission check.  A refusal raises, and the
\* except clause of the attempt records a failure.
AttemptCheck(p) ==
    /\ pthread[p].pc = "check"
    /\ IF can_execute(cb)
         THEN /\ cb' = after_can_execute(cb)
              /\ pthread' = [pthread EXCEPT ![p].pc = "record"]
         ELSE /\ cb' = record_failure(after_can_execute(cb))
              /\ pthread' = [pthread EXCEPT ![p] = AfterRefusal(pthread[p])]
    /\ UNCHANGED <<lastCall, run>>
    /\ UNCHANGED <<payments, attempts, ppend, nextPaymentId, nextAttemptId, deliveries, creator, providerCalls, provider200, paymentEvents>>
    /\ UNCHANGED <<orderSide, notifySide, consumerSide, spellSide, calcSide, signalSide, dispatchSide, gcSide>>

AttemptNumbers(p) == {AttemptView(a).attempt_number : a \in {b \in AttemptIds : AttemptView(b).status # "NONE" /\ AttemptView(b).payment_id = p}}

Max(S) == CHOOSE x \in S : \A y \in S : y <= x

NextAttemptNumberByRetry(p) == pthread[p].attempt + 1

\* (SELECT COALESCE(MAX(attempt_number), 0) + 1 FROM payment_attempts WHERE payment_id = %s)
NextAttemptNumber(p) == IF AttemptNumbers(p) = {} THEN 1 ELSE Max(AttemptNumbers(p)) + 1

\* get_payment_by_id, then record_payment_attempt: INSERT INTO payment_attempts
\* (not committed by execute_query).  A missing payment raises.
AttemptRecord(p) ==
    /\ pthread[p].pc = "record"
    /\ IF ~ppend.failed /\ get_payment_by_id(p)
         THEN /\ ppend' = [ppend EXCEPT !.attempts[nextAttemptId] =
                             [payment_id |-> p, attempt_number |-> NextAttemptNumber(p), status |-> "PENDING"]]
              /\ nextAttemptId' = nextAttemptId + 1
              /\ pthread' = [pthread EXCEPT ![p].pc = "call", ![p].attempt_id = nextAttemptId]
              /\ cb' = cb
         ELSE /\ cb' = record_failure(cb)
              /\ pthread' = [pthread EXCEPT ![p] = AfterRaise(pthread[p])]
              /\ ppend' = IF ppend.failed THEN EmptyPayPend ELSE ppend
              /\ UNCHANGED nextAttemptId
    /\ UNCHANGED <<lastCall, run>>
    /\ UNCHANGED <<payments, attempts, nextPaymentId, deliveries, creator, providerCalls, provider200, paymentEvents>>
    /\ UNCHANGED <<orderSide, notifySide, consumerSide, spellSide, calcSide, signalSide, dispatchSide, gcSide>>

\* orders whose delivery address is '123': call_payment_provider answers False
\* for them without a request
CrashTestOrders == {MaxOrders}

\* call_payment_provider up to requests.post: the address check and the second
\* admission check
ProviderCall(p) ==
    /\ pthread[p].pc = "call"
    /\ ppend' = IF ppend.failed THEN EmptyPayPend ELSE ppend
    /\ IF ~ppend.failed /\ payments[p].order \in CrashTestOrders
         THEN /\ pthread' = [pthread EXCEPT ![p].pc = "after_call", ![p].ok = FALSE]
              /\ cb' = cb
         ELSE /\ cb' = after_can_execute(cb)
              /\ pthread' = [pthread EXCEPT ![p].pc = IF can_execute(cb) THEN "response" ELSE "after_call", ![p].ok = FALSE]
    /\ UNCHANGED <<lastCall, run>>
    /\ UNCHANGED <<payments, attempts, nextPaymentId, nextAttemptId, deliveries, creator, providerCalls, provider200, paymentEvents>>
    /\ UNCHANGED <<orderSide, notifySide, consumerSide, spellSide, calcSide, signalSide, dispatchSide, gcSide>>

\* the provider's answer: 200, or anything else (an error status, a timeout)
ProviderResponse(p, ok) ==
    /\ pthread[p].pc = "response"
    /\ providerCalls' = [providerCalls EXCEPT ![payments[p].order] = @ + 1]
    /\ provider200' = [provider200 EXCEPT ![payments[p].order] = IF ok THEN @ + 1 ELSE @]
    /\ cb' = IF ok THEN record_success(cb) ELSE record_failure(cb)
    /\ pthread' = [pthread EXCEPT ![p].pc = "after_call", ![p].ok = ok]
    /\ UNCHANGED <<lastCall, run>>
    /\ UNCHANGED <<payments, attempts, ppend, nextPaymentId, nextAttemptId, deliveries, creator, paymentEvents>>
    /\ UNCHANGED <<orderSide, notifySide, consumerSide, spellSide, calcSide, signalSide, dispatchSide, gcSide>>

\* UPDATE payment_attempts SET status = %s ... WHERE id = %s (not committed)
update_payment_attempt(a, success) ==
    IF AttemptView(a).status # "NONE"
      THEN ppend' = [ppend EXCEPT !.attempts[a] = [AttemptView(a) EXCEPT !.status = IF success THEN "SUCCESS" ELSE "FAILED"]]
      ELSE ppend' = ppend

RetryAfterSuccess(th) == AfterRaise(th)

\* return True: retry_with_backoff returns, no further attempt
AfterSuccess(th) == [th EXCEPT !.pc = "done_update"]

\* attempt_payment_processing after the provider call.  Success: the attempt
\* row, record_success, return True.  Failure: the attempt row, record_failure,
\* raise, and the except clause records a failure again.  An UPDATE that raises
\* goes to the except clause whatever the provider answered.
AttemptResult(p) ==
    /\ pthread[p].pc = "after_call"
    /\ IF ppend.failed
         THEN /\ ppend' = EmptyPayPend
              /\ cb' = record_failure(cb)
              /\ pthread' = [pthread EXCEPT ![p] = AfterRaise(pthread[p])]
         ELSE /\ update_payment_attempt(pthread[p].attempt_id, pthread[p].ok)
              /\ IF pthread[p].ok
                   THEN /\ cb' = record_success(cb)
                        /\ pthread' = [pthread EXCEPT ![p] = AfterSuccess(pthread[p])]
                   ELSE /\ cb' = record_failure(record_failure(cb))
                        /\ pthread' = [pthread EXCEPT ![p] = AfterRaise(pthread[p])]
    /\ UNCHANGED <<lastCall, run>>
    /\ UNCHANGED <<payments, attempts, nextPaymentId, nextAttemptId, deliveries, creator, providerCalls, provider200, paymentEvents>>
    /\ UNCHANGED <<orderSide, notifySide, consumerSide, spellSide, calcSide, signalSide, dispatchSide, gcSide>>

\* update_payment_status(COMPLETED) or, in the except clause of
\* process_payment_async, update_payment_status(FAILED, str(e)): the UPDATE.
\* When the first raises the except clause takes over; when the second raises
\* the exception ends the thread.  Both rollbacks of a raising statement
\* (get_cursor, transaction) are one step here.
FinalStatus(p) ==
    /\ pthread[p].pc \in {"done_update", "fail_update"}
    /\ IF ppend.failed
         THEN /\ ppend' = EmptyPayPend
              /\ pthread' = [pthread EXCEPT ![p].pc = IF pthread[p].pc = "done_update" THEN "fail_update" ELSE "finished"]
         ELSE /\ IF pthread[p].pc = "done_update"
                   THEN UpdatePaymentStmt(p, "COMPLETED", "")
                   ELSE UpdatePaymentStmt(p, "FAILED", "error")
              /\ pthread' = [pthread EXCEPT ![p].pc = IF pthread[p].pc = "done_update" THEN "done_commit" ELSE "fail_commit"]
    /\ UNCHANGED <<payments, attempts, nextPaymentId, nextAttemptId, deliveries, creator, providerCalls, provider200, paymentEvents>>
    /\ UNCHANGED <<orderSide, breakerSide, notifySide, consumerSide, spellSide, calcSide, signalSide, dispatchSide, gcSide>>

\* ... and its commit
FinalStatusCommit(p) ==
    /\ pthread[p].pc \in {"done_commit", "fail_commit"}
    /\ PayCommit
    /\ pthread' = [pthread EXCEPT ![p].pc = IF pthread[p].pc = "done_commit" THEN "publish_paid" ELSE "publish_failed"]
    /\ UNCHANGED <<nextPaymentId, nextAttemptId, deliveries, creator, providerCalls, provider200, paymentEvents>>
    /\ UNCHANGED <<orderSide, breakerSide, notifySide, consumerSide, spellSide, calcSide, signalSide, dispatchSide, gcSide>>

AfterPublishRaises(th) ==
    [th EXCEPT !.pc = IF th.pc = "publish_paid" THEN "fail_update" ELSE "finished"]

\* both publish functions catch every exception themselves and return; the
\* metrics call that follows does not raise: process_payment_async ends
AfterPublish(th) == [th EXCEPT !.pc = "finished"]

\* publish_payment_success_event / publish_payment_failure_event: the payment is
\* read back; a missing payment or a refused publish is logged and dropped.
\* PaymentFailed carries the failure_reason of the row that was read.
PublishOutcome(p, acked) ==
    /\ pthread[p].pc \in {"publish_paid", "publish_failed"}
    /\ ppend' = IF ppend.failed THEN EmptyPayPend ELSE ppend
    /\ paymentEvents' =
         IF ~ppend.failed /\ get_payment_by_id(p) /\ acked
           THEN Append(paymentEvents,
                       [event_type |-> IF pthread[p].pc = "publish_paid" THEN "OrderPaid" ELSE "PaymentFailed",
                        payment_id |-> p, order_id |-> PaymentView(p).order,
                        failure_reason |-> IF pthread[p].pc = "publish_paid" THEN ""
                                           ELSE PaymentView(p).failure_reason])
           ELSE paymentEvents
    /\ pthread' = [pthread EXCEPT ![p] = AfterPublish(pthread[p])]
    /\ UNCHANGED <<payments, attempts, nextPaymentId, nextAttemptId, deliveries, creator, providerCalls, provider200>>
    /\ UNCHANGED <<orderSide, breakerSide, notifySide, consumerSide, spellSide, calcSide, signalSide, dispatchSide, gcSide>>

\* ==================================================== notification service
\* event types on order-events and payment-events; the first three have a
\* handler in handle_event
NotificationTypes == {"OrderCreated", "OrderPaid", "PaymentFailed"}
EventTypes == NotificationTypes \cup {"OrderStatusChanged"}

NotificationIds == 1..(MaxNotifyDeliveries + MaxSendRequests)

NoNotification == [order_id |-> 0, channels |-> <<>>, template_type |-> "-", status |-> "NONE"]

\* channels = metadata.get('notification_channels', ['EMAIL', 'PUSH'])
DefaultChannels == <<"EMAIL", "PUSH">>

\* channels lists a POST /api/v1/notifications request carries
RequestChannels == {<<"EMAIL">>, <<"EMAIL", "PUSH">>}

\* the notification service's connection: status UPDATEs and delivery_attempts
\* INSERTs that no commit has made durable yet
EmptyNotifyPend == [status |-> [n \in NotificationIds |-> NoWrite], attempts |-> {}]

NoSender == [pc |-> "none", channels |-> <<>>, success_count |-> 0]

\* connection.commit() of the notification service
NotifyCommit(rows) ==
    /\ notifications' = [n \in NotificationIds |->
                            IF npend.status[n] # NoWrite /\ rows[n].status # "NONE"
                              THEN [rows[n] EXCEPT !.status = npend.status[n]]
                              ELSE rows[n]]
    /\ delivery_attempts' = delivery_attempts \cup npend.attempts
    /\ npend' = EmptyNotifyPend
IdleConsumer == [pc |-> "idle", event_type |-> "-", order |-> 0]

\* keys publish_event adds to every payload
EnrichedKeys == {"service_name", "service_version", "timestamp", "event_id"}

\* keys of the payload of an event as its producer builds it
EventKeys(event_type) ==
    EnrichedKeys \cup
    CASE event_type = "OrderCreated" ->
           {"event_type", "orderId", "userId", "totalAmount", "itemsCount", "items",
            "paymentMethod", "deliveryAddress"}
      [] event_type = "OrderStatusChanged" ->
           {"event_type", "orderId", "newStatus", "reason"}
      [] event_type = "OrderPaid" ->
           {"event_type", "payment_id", "order_id", "amount", "payment_method"}
      [] event_type = "PaymentFailed" ->
           {"event_type", "payment_id", "order_id", "amount", "payment_method", "failure_reason"}

\* replacement fields of title_template and message_template of the default
\* templates; str.format takes all of "total/100" as the name of the field
Placeholders(template_type) ==
    CASE template_type = "OrderCreated" -> {"order_id", "total/100"}
      [] template_type = "OrderPaid" -> {"amount/100", "order_id"}
      [] template_type = "PaymentFailed" -> {"order_id", "failure_reason"}

\* template.format(**event_data) returns; it raises KeyError for a field that
\* is no key of the payload
Renders(template_type, keys) == Placeholders(template_type) \subseteq keys

\* the key the handler reads the order id from
OrderIdKey(event_type) == IF event_type = "OrderCreated" THEN "orderId" ELSE "order_id"

NotifyTotal ==
    SumUpTo([o \in OrderIds |->
                ndeliveries[<<o, "OrderCreated">>] + ndeliveries[<<o, "OrderPaid">>]
                  + ndeliveries[<<o, "PaymentFailed">>] + ndeliveries[<<o, "OrderStatusChanged">>]],
            MaxOrders)

\* handle_event: dispatch on event_type; an unknown type is logged
handle_event(event_type, o) ==
    /\ nthread.pc = "idle"
    /\ NotifyTotal < MaxNotifyDeliveries
    /\ ndeliveries' = [ndeliveries EXCEPT ![<<o, event_type>>] = @ + 1]
    /\ nthread' = IF event_type \in NotificationTypes /\ OrderIdKey(event_type) \in EventKeys(event_type)
                    THEN [pc |-> "template", event_type |-> event_type, order |-> o]
                    ELSE IdleConsumer
    /\ UNCHANGED <<notifications, nextNotificationId>>
    /\ UNCHANGED <<orderSide, breakerSide, paySide, consumerSide, spellSide, calcSide, signalSide, dispatchSide, gcSide>>

\* get_template: the row of notification_templates that create_default_templates
\* wrote for the type
get_template ==
    /\ nthread.pc = "template"
    /\ nthread' = [nthread EXCEPT !.pc = "render"]
    /\ UNCHANGED <<notifications, nextNotificationId, ndeliveries>>
    /\ UNCHANGED <<orderSide, breakerSide, paySide, consumerSide, spellSide, calcSide, signalSide, dispatchSide, gcSide>>

\* handle_order_created / handle_order_paid / handle_payment_failed: render
\* message and subject; a KeyError goes to the except clause of handle_event
RenderTemplate ==
    /\ nthread.pc = "render"
    /\ nthread' = IF Renders(nthread.event_type, EventKeys(nthread.event_type))
                    THEN [nthread EXCEPT !.pc = "save"]
                    ELSE IdleConsumer
    /\ UNCHANGED <<notifications, nextNotificationId, ndeliveries>>
    /\ UNCHANGED <<orderSide, breakerSide, paySide, consumerSide, spellSide, calcSide, signalSide, dispatchSide, gcSide>>

\* INSERT INTO notifications.notifications ... VALUES (id, ..., 'PENDING')
\* inside `with self.db.transaction()`: the commit of the connection follows
create_notification_record(notification_id, order_id, channels, template_type) ==
    NotifyCommit([notifications EXCEPT ![notification_id] =
                     [order_id |-> order_id, channels |-> channels,
                      template_type |-> template_type, status |-> "PENDING"]])

\* save_notification: a fresh id from generate_id, then the INSERT and its commit
save_notification ==
    /\ nthread.pc = "save"
    /\ create_notification_record(nextNotificationId, nthread.order, DefaultChannels, nthread.event_type)
    /\ nextNotificationId' = nextNotificationId + 1
    /\ nthread' = IdleConsumer
    /\ UNCHANGED <<ndeliveries, sender>>
    /\ UNCHANGED <<orderSide, breakerSide, paySide, consumerSide, spellSide, calcSide, signalSide, gcSide>>

\* POST /api/v1/notifications: the record, then a thread that runs
\* send_notification_async for it
send_notification(channels) ==
    /\ Cardinality({n \in NotificationIds : sender[n].pc # "none"}) < MaxSendRequests
    /\ create_notification_record(nextNotificationId, 0, channels, "-")
    /\ nextNotificationId' = nextNotificationId + 1
    /\ sender' = [sender EXCEPT ![nextNotificationId] = [NoSender EXCEPT !.pc = "lookup"]]
    /\ UNCHANGED <<nthread, ndeliveries>>
    /\ UNCHANGED <<orderSide, breakerSide, paySide, consumerSide, spellSide, calcSide, signalSide, gcSide>>

\* the row of a notification as the connection sees it
NotificationView(n) ==
    IF npend.status[n] # NoWrite /\ notifications[n].status # "NONE"
      THEN [notifications[n] EXCEPT !.status = npend.status[n]]
      ELSE notifications[n]

\* UPDATE notifications SET status = %s WHERE id = %s, through get_cursor:
\* no commit follows
update_notification_status(n, status) ==
    npend' = [npend EXCEPT !.status[n] = status]

\* send_notification_async: get_notification_by_id and the channels of the
\* row; a missing row raises and the except clause writes FAILED
SenderLookup(n) ==
    /\ sender[n].pc = "lookup"
    /\ IF NotificationView(n).status # "NONE"
         THEN /\ sender' = [sender EXCEPT ![n] = [pc |-> "record", channels |-> NotificationView(n).channels,
                                                  success_count |-> 0]]
              /\ npend' = npend
         ELSE /\ sender' = [sender EXCEPT ![n].pc = "finished"]
              /\ update_notification_status(n, "FAILED")
    /\ UNCHANGED <<notifications, nextNotificationId, nthread, ndeliveries, delivery_attempts>>
    /\ UNCHANGED <<orderSide, breakerSide, paySide, consumerSide, spellSide, calcSide, signalSide, gcSide>>

\* send_through_channel, record_delivery_attempt: INSERT INTO delivery_attempts
\* ... RETURNING id, through get_cursor
record_delivery_attempt(n) ==
    /\ sender[n].pc = "record"
    /\ sender[n].channels # <<>>
    /\ npend' = [npend EXCEPT !.attempts = @ \cup {<<n, Head(sender[n].channels)>>}]
    /\ sender' = [sender EXCEPT ![n].pc = "fetch"]
    /\ UNCHANGED <<notifications, nextNotificationId, nthread, ndeliveries, delivery_attempts>>
    /\ UNCHANGED <<orderSide, breakerSide, paySide, consumerSide, spellSide, calcSide, signalSide, gcSide>>

\* attempt_id = cursor.fetchone()[0]: the connection's cursors are
\* RealDictCursor, a row is a dict keyed by column name, and [0] raises
\* KeyError.  get_cursor rolls the connection back and re-raises,
\* send_through_channel catches it and returns False; the channel's sender
\* and update_delivery_attempt are never reached.
SenderFetch(n) ==
    /\ sender[n].pc = "fetch"
    /\ npend' = EmptyNotifyPend
    /\ sender' = [sender EXCEPT ![n].pc = "record", ![n].channels = Tail(@)]
    /\ UNCHANGED <<notifications, nextNotificationId, nthread, ndeliveries, delivery_attempts>>
    /\ UNCHANGED <<orderSide, breakerSide, paySide, consumerSide, spellSide, calcSide, signalSide, gcSide>>

\* after the last channel: SENT when a channel succeeded, FAILED when none did
SenderStatus(n) ==
    /\ sender[n].pc = "record"
    /\ sender[n].channels = <<>>
    /\ update_notification_status(n, IF sender[n].success_count > 0 THEN "SENT" ELSE "FAILED")
    /\ sender' = [sender EXCEPT ![n].pc = "finished"]
    /\ UNCHANGED <<notifications, nextNotificationId, nthread, ndeliveries, delivery_attempts>>
    /\ UNCHANGED <<orderSide, breakerSide, paySide, consumerSide, spellSide, calcSide, signalSide, gcSide>>

send_notification_async(n) ==
    \/ SenderLookup(n)
    \/ record_delivery_attempt(n)
    \/ SenderFetch(n)
    \/ SenderStatus(n)

\* ================================================= EventManager.process_events
\* The consumer of a group is created once and kept in _consumers; its
\* position is the offset of the next message the iterator yields and is what
\* auto-commit commits.  kc.message is the offset of the message the loop holds.

\* a producer appends a message; raises says whether handler_func raises on it
ProduceMessage(raises) ==
    /\ Len(log) < MaxMessages
    /\ log' = Append(log, raises)
    /\ UNCHANGED kc
    /\ UNCHANGED <<orderSide, breakerSide, paySide, notifySide, spellSide, calcSide, signalSide, dispatchSide, gcSide>>

\* consume_events: the next call of process_events with max_messages
process_events ==
    /\ kc.pc = "sleep"
    /\ kc' = [kc EXCEPT !.pc = "iter", !.budget = max_messages, !.message = 0]
    /\ UNCHANGED log
    /\ UNCHANGED <<orderSide, breakerSide, paySide, notifySide, spellSide, calcSide, signalSide, dispatchSide, gcSide>>

\* for message in consumer: the iterator yields the message at the position and
\* advances the position, or ends after consumer_timeout_ms without a message
ConsumerIterate ==
    /\ kc.pc = "iter"
    /\ kc' = IF kc.position <= Len(log)
               THEN [kc EXCEPT !.pc = "got", !.message = kc.position, !.position = kc.position + 1]
               ELSE [kc EXCEPT !.pc = "sleep", !.message = 0]
    /\ UNCHANGED log
    /\ UNCHANGED <<orderSide, breakerSide, paySide, notifySide, spellSide, calcSide, signalSide, dispatchSide, gcSide>>

\* if max_messages <= 0: break
BudgetCheck ==
    /\ kc.pc = "got"
    /\ kc' = IF kc.budget <= 0
               THEN [kc EXCEPT !.pc = "sleep", !.message = 0]
               ELSE [kc EXCEPT !.pc = "handle"]
    /\ UNCHANGED log
    /\ UNCHANGED <<orderSide, breakerSide, paySide, notifySide, spellSide, calcSide, signalSide, dispatchSide, gcSide>>

HandlerRaisedStops(k) == [k EXCEPT !.pc = "sleep", !.message = 0]

\* except Exception inside the loop: the error is logged, max_messages keeps
\* its value and the for loop goes on
HandlerRaised(k) == [k EXCEPT !.pc = "iter", !.message = 0]

\* the handler returned: max_messages -= 1
HandlerReturned(k) == [k EXCEPT !.pc = "iter", !.message = 0, !.budget = k.budget - 1]

\* handler_func(message.topic, message.value, message.key)
Dispatch ==
    /\ kc.pc = "handle"
    /\ kc' = IF log[kc.message]
               THEN HandlerRaised([kc EXCEPT !.dispatched = Append(@, kc.message)])
               ELSE HandlerReturned([kc EXCEPT !.dispatched = Append(@, kc.message)])
    /\ UNCHANGED log
    /\ UNCHANGED <<orderSide, breakerSide, paySide, notifySide, spellSide, calcSide, signalSide, dispatchSide, gcSide>>

\* ============================================ order id resolution of handlers
\* An event payload that carries the id of order `order` under the key `key`;
\* 0 stands for None.
EventData(event_type, key, order) == [event_type |-> event_type, key |-> key, order |-> order]

\* event_data.get(k)
Get(event_data, k) == IF event_data.key = k THEN event_data.order ELSE 0

\* a or b
Or(a, b) == IF a # 0 THEN a ELSE b

\* OrderService.handle_payment_event: order_id = event_data.get('order_id');
\* without it the event is logged and dropped; other event types are unknown
OrderServiceOrderId(event_data) ==
    IF event_data.event_type \in {"OrderPaid", "PaymentFailed"} THEN Get(event_data, "order_id") ELSE 0

\* PaymentService.handle_order_event:
\* order_id = event_data.get('orderId') or event_data.get('order_id')
PaymentServiceOrderId(event_data) ==
    IF event_data.event_type = "OrderCreated"
      THEN Or(Get(event_data, "orderId"), Get(event_data, "order_id"))
      ELSE 0

\* NotificationService.handle_order_created / handle_order_paid /
\* handle_payment_failed: the key each of them reads
NotificationServiceOrderId(event_data) == Get(event_data, OrderIdKey(event_data.event_type))

\* one event delivered to the consumers that subscribe to its topic
DeliverEvent(event_type, key, order) ==
    /\ Len(resolved) < MaxResolved
    /\ resolved' = Append(resolved,
                     [event_data |-> EventData(event_type, key, order),
                      order_service |-> OrderServiceOrderId(EventData(event_type, key, order)),
                      payment_service |-> PaymentServiceOrderId(EventData(event_type, key, order)),
                      notification_service |-> NotificationServiceOrderId(EventData(event_type, key, order))])
    /\ UNCHANGED <<orderSide, breakerSide, paySide, notifySide, consumerSide, calcSide, signalSide, dispatchSide, gcSide>>

\* ======================================== POST /api/v1/orders: the order data
\* Pizza ids a request can name: the sample pizzas of the menu and one id the
\* menu does not have; 0 stands for an item without pizzaId.
SamplePizzas == {1, 2}
PizzaIds == SamplePizzas \cup {3}

\* prices a PUT /api/v1/menu/<pizza_id> can set
Prices == {3, 4, 7}

\* an item of the request body: pizzaId, and quantity when the key is there
Items ==
    [pizzaId : {0} \cup PizzaIds, has_quantity : {TRUE}, quantity : (0 - 1)..MaxQuantity]
      \cup [pizzaId : {0} \cup PizzaIds, has_quantity : {FALSE}, quantity : {0}]

ItemLists == UNION {[1..n -> Items] : n \in 0..MaxItems}

IdleCreateOrder ==
    [pc |-> "idle", has_fields |-> TRUE, items |-> <<>>, pizza_details |-> <<>>,
     total_amount |-> 0, response |-> 0]

\* except ValidationError: 400; except Exception: 500
ExceptionResponseAlways500(exception) == 500

ExceptionResponse(exception) == IF exception = "ValidationError" THEN 400 ELSE 500

\* PUT /api/v1/menu/<pizza_id> of the frontend service with a price
update_pizza(p, price) ==
    /\ menuUpdates < MaxMenuUpdates
    /\ menu[p] # 0
    /\ menu' = [menu EXCEPT ![p] = price]
    /\ menuUpdates' = menuUpdates + 1
    /\ UNCHANGED <<co, orderRows>>
    /\ UNCHANGED <<orderSide, breakerSide, paySide, notifySide, consumerSide, spellSide, signalSide, dispatchSide, gcSide>>

\* create_order: validate_required_fields and the test for an empty items list
create_order(has_fields, item_list) ==
    /\ co.pc \in {"idle", "done"}
    /\ Len(orderRows) < MaxCalcOrders
    /\ co' = IF ~has_fields \/ item_list = <<>>
               THEN [IdleCreateOrder EXCEPT !.pc = "done", !.has_fields = has_fields, !.items = item_list,
                                            !.response = ExceptionResponse("ValidationError")]
               ELSE [IdleCreateOrder EXCEPT !.pc = "details", !.has_fields = has_fields, !.items = item_list]
    /\ UNCHANGED <<menu, orderRows, menuUpdates>>
    /\ UNCHANGED <<orderSide, breakerSide, paySide, notifySide, consumerSide, spellSide, signalSide, dispatchSide, gcSide>>

\* item.get('quantity', 1)
QuantityOrOne(item) == IF item.has_quantity THEN item.quantity ELSE 1

\* sum(item['pizza_price'] * item['quantity'] for item in pizza_details)
RECURSIVE calculate_total(_)
calculate_total(pizza_details) ==
    IF pizza_details = <<>> THEN 0
    ELSE Head(pizza_details).pizza_price * Head(pizza_details).quantity
           + calculate_total(Tail(pizza_details))

\* get_pizza_details, one turn of its loop: the item without pizzaId and the
\* pizza the frontend answers 404 for raise ValidationError; after the last
\* item calculate_total
get_pizza_details ==
    /\ co.pc = "details"
    /\ LET item == co.items[Len(co.pizza_details) + 1]
           detail == [pizza_id |-> item.pizzaId, pizza_price |-> menu[item.pizzaId],
                      quantity |-> QuantityOrOne(item),
                      subtotal |-> menu[item.pizzaId] * QuantityOrOne(item)]
       IN  IF item.pizzaId = 0 \/ menu[item.pizzaId] = 0
             THEN co' = [co EXCEPT !.pc = "done", !.response = ExceptionResponse("ValidationError")]
             ELSE co' = [co EXCEPT !.pizza_details = Append(@, detail),
                                   !.pc = IF Len(co.pizza_details) + 1 = Len(co.items)
                                            THEN "create" ELSE "details",
                                   !.total_amount = IF Len(co.pizza_details) + 1 = Len(co.items)
                                                      THEN calculate_total(Append(co.pizza_details, detail))
                                                      ELSE 0]
    /\ UNCHANGED <<menu, orderRows, menuUpdates>>
    /\ UNCHANGED <<orderSide, breakerSide, paySide, notifySide, consumerSide, spellSide, signalSide, dispatchSide, gcSide>>

\* next((p for p in pizza_details if p['pizza_id'] == item['pizzaId']), None)
FirstDetail(pizza_details, pizzaId) ==
    pizza_details[CHOOSE i \in 1..Len(pizza_details) :
                     /\ pizza_details[i].pizza_id = pizzaId
                     /\ \A j \in 1..(i - 1) : pizza_details[j].pizza_id # pizzaId]

\* the rows of order_items_to_insert
OrderItemsToInsert(item_list, pizza_details) ==
    [i \in 1..Len(item_list) |->
        [pizza_id |-> FirstDetail(pizza_details, item_list[i].pizzaId).pizza_id,
         pizza_price |-> FirstDetail(pizza_details, item_list[i].pizzaId).pizza_price,
         quantity |-> item_list[i].quantity,
         subtotal |-> FirstDetail(pizza_details, item_list[i].pizzaId).pizza_price * item_list[i].quantity]]

\* create_order_with_outbox by a request that is alone on the connection: the
\* order row with total_amount, the item rows, the outbox row, commit, 202.
\* item['quantity'] of an item without the key raises KeyError: rollback, 500.
create_order_with_outbox ==
    /\ co.pc = "create"
    /\ IF \E i \in 1..Len(co.items) : ~co.items[i].has_quantity
         THEN /\ co' = [co EXCEPT !.pc = "done", !.response = ExceptionResponse("KeyError")]
              /\ UNCHANGED orderRows
         ELSE /\ co' = [co EXCEPT !.pc = "done", !.response = 202]
              /\ orderRows' = Append(orderRows,
                                     [total |-> co.total_amount,
                                      order_items |-> OrderItemsToInsert(co.items, co.pizza_details)])
    /\ UNCHANGED <<menu, menuUpdates>>
    /\ UNCHANGED <<orderSide, breakerSide, paySide, notifySide, consumerSide, spellSide, signalSide, dispatchSide, gcSide>>

Init ==
    /\ orders = [o \in OrderIds |-> "NONE"]
    /\ items = {}
    /\ outbox = <<>>
    /\ pend = EmptyPend
    /\ nextEventId = 1
    /\ opsStarted = 0
    /\ req = [t \in Req |-> IdleThread]
    /\ cons = IdleThread
    /\ aborted = {}
    /\ relay = [pc |-> "sleep", batch |-> <<>>, attempt |-> 0]
    /\ orderEvents = <<>>
    /\ crashes = 0
    /\ cb = CircuitBreaker
    /\ lastCall = [method |-> "__init__", returned |-> TRUE]
    /\ run = 0
    /\ payments = [p \in PaymentIds |-> NoPayment]
    /\ attempts = [a \in AttemptIds |-> NoAttempt]
    /\ ppend = EmptyPayPend
    /\ nextPaymentId = 1
    /\ nextAttemptId = 1
    /\ deliveries = [o \in OrderIds |-> 0]
    /\ creator = [c \in Creators |-> IdleCreator]
    /\ pthread = [p \in PaymentIds |-> NoThread]
    /\ providerCalls = [o \in OrderIds |-> 0]
    /\ provider200 = [o \in OrderIds |-> 0]
    /\ paymentEvents = <<>>
    /\ notifications = [n \in NotificationIds |-> NoNotification]
    /\ nextNotificationId = 1
    /\ nthread = IdleConsumer
    /\ ndeliveries = [e \in OrderIds \X EventTypes |-> 0]
    /\ log = <<>>
    /\ kc = [pc |-> "sleep", position |-> 1, budget |-> 0, message |-> 0, dispatched |-> <<>>]
    /\ resolved = <<>>
    /\ menu = [p \in PizzaIds |-> IF p \in SamplePizzas THEN 2 + p ELSE 0]
    /\ co = IdleCreateOrder
    /\ orderRows = <<>>
    /\ menuUpdates = 0
    /\ running = TRUE
    /\ npend = EmptyNotifyPend
    /\ sender = [n \in NotificationIds |-> NoSender]
    /\ delivery_attempts = {}
    /\ aged = {}

\* the order service: its request threads and its consumer thread, all on the
\* one connection of the service
Next ==
    \/ \E t \in Req, o \in OrderIds, bad \in BOOLEAN, big \in BOOLEAN : CreateOrderInsert(t, o, bad, big)
    \/ \E t \in Req : CreateOrderItems(t)
    \/ \E t \in Req : CreateOrderAbort(t)
    \/ \E t \in Req : CreateOrderOutbox(t)
    \/ \E t \in Req : CreateOrderCommit(t)
    \/ \E t \in Req, o \in OrderIds, s \in valid_statuses, big \in BOOLEAN : PutStatusUpdate(t, o, s, big)
    \/ \E t \in Req : PutStatusOutbox(t)
    \/ \E t \in Req : PutStatusCommit(t)
    \/ \E e \in PaymentEventTypes, o \in OrderIds : HandlePaymentEvent(e, o)
    \/ ConsumerOutbox
    \/ ConsumerCommit
    \/ ConsumerSagaCommit

Spec == Init /\ [][Next]_vars

\* the order service with POST /orders and the consumer thread only: every
\* OrderStatusChanged row is written by handle_payment_event
SagaNext ==
    \/ \E t \in Req, o \in OrderIds, bad \in BOOLEAN, big \in BOOLEAN : CreateOrderInsert(t, o, bad, big)
    \/ \E t \in Req : CreateOrderItems(t)
    \/ \E t \in Req : CreateOrderAbort(t)
    \/ \E t \in Req : CreateOrderOutbox(t)
    \/ \E t \in Req : CreateOrderCommit(t)
    \/ \E e \in PaymentEventTypes, o \in OrderIds : HandlePaymentEvent(e, o)
    \/ ConsumerOutbox
    \/ ConsumerCommit
    \/ ConsumerSagaCommit

SagaSpec == Init /\ [][SagaNext]_vars

\* the outbox relay beside an order service that serves one request at a time
RelayProducer ==
    \/ \E o \in OrderIds, bad \in BOOLEAN, big \in BOOLEAN : CreateOrderInsert(1, o, bad, big)
    \/ CreateOrderItems(1)
    \/ CreateOrderAbort(1)
    \/ CreateOrderOutbox(1)
    \/ CreateOrderCommit(1)
    \/ \E o \in OrderIds, s \in valid_statuses, big \in BOOLEAN : PutStatusUpdate(1, o, s, big)
    \/ PutStatusOutbox(1)
    \/ PutStatusCommit(1)

RelayStep ==
    \/ ProcessBatch
    \/ process_single_event
    \/ PublishOk
    \/ PublishFail
    \/ mark_event_processed

RelayNext ==
    \/ RelayProducer
    \/ RelayStep
    \/ RelayCrash

RelaySpec == Init /\ [][RelayNext]_vars

\* the relay with its restarts and the cleanup each start begins with
GcNext ==
    \/ RelayProducer
    \/ RelayStep
    \/ RelayRestart
    \/ cleanup_processed_events
    \/ RetentionElapses

GcSpec == Init /\ [][GcNext]_vars

\* the relay that receives SIGTERM or SIGINT at any moment
SignalNext ==
    \/ RelayProducer
    \/ RelayStep
    \/ signal_handler
    \/ RelayStopped

SignalSpec == Init /\ [][SignalNext]_vars

\* the relay that keeps running (run's `while self.running` loop is never
\* starved and the process is not killed) against a broker that does not
\* refuse an acceptable message for ever
PublishOkOf(id) == PublishOk /\ Head(relay.batch) = id

RelayLiveNext ==
    \/ RelayProducer
    \/ RelayStep

RelayLiveSpec ==
    /\ Init
    /\ [][RelayLiveNext]_vars
    /\ WF_vars(RelayStep)
    /\ \A id \in 1..MaxOps : SF_vars(PublishOkOf(id))

\* a CircuitBreaker object under any sequence of calls
BreakerNext ==
    \/ CallCanExecute
    \/ CallRecordSuccess
    \/ CallRecordFailure
    \/ TimePasses
    \/ TimeoutElapses

BreakerSpec == Init /\ [][BreakerNext]_vars

\* the breaker together with the status route that reads it
StatusNext ==
    \/ BreakerNext
    \/ get_circuit_breaker_status

StatusSpec == Init /\ [][StatusNext]_vars

\* the payment service: consumer thread, HTTP threads and payment threads on
\* the one connection and the one breaker of the service
PayNext ==
    \/ \E o \in OrderIds : handle_order_created(o)
    \/ \E t \in Creators, o \in OrderIds : process_payment(t, o)
    \/ \E c \in Creators : create_payment_record(c)
    \/ \E c \in Creators : CreatePaymentRollback(c)
    \/ \E c \in Creators : CreatePaymentAbort(c)
    \/ \E c \in Creators : CreatePaymentCommit(c)
    \/ \E p \in PaymentIds : StartProcessing(p)
    \/ \E p \in PaymentIds : StartProcessingCommit(p)
    \/ \E p \in PaymentIds : AttemptCheck(p)
    \/ \E p \in PaymentIds : AttemptRecord(p)
    \/ \E p \in PaymentIds : ProviderCall(p)
    \/ \E p \in PaymentIds, ok \in BOOLEAN : ProviderResponse(p, ok)
    \/ \E p \in PaymentIds : AttemptResult(p)
    \/ \E p \in PaymentIds : FinalStatus(p)
    \/ \E p \in PaymentIds : FinalStatusCommit(p)
    \/ \E p \in PaymentIds, acked \in BOOLEAN : PublishOutcome(p, acked)
    \/ TimePasses
    \/ TimeoutElapses

PaySpec == Init /\ [][PayNext]_vars

\* payments whose process_payment_async thread gets to run in the racing runs;
\* the threads of the other payments are still waiting to be scheduled
ScheduledPayments == {1}

\* the payment service with requests racing for one order, against a provider
\* that answers 200 and a broker that acknowledges
AttemptNext ==
    \/ \E o \in OrderIds : handle_order_created(o)
    \/ \E t \in Creators, o \in OrderIds : process_payment_racing(t, o)
    \/ \E c \in Creators : create_payment_record(c)
    \/ \E c \in Creators : CreatePaymentRollback(c)
    \/ \E c \in Creators : CreatePaymentAbort(c)
    \/ \E c \in Creators : CreatePaymentCommit(c)
    \/ \E p \in ScheduledPayments : StartProcessing(p)
    \/ \E p \in ScheduledPayments : StartProcessingCommit(p)
    \/ \E p \in ScheduledPayments : AttemptCheck(p)
    \/ \E p \in ScheduledPayments : AttemptRecord(p)
    \/ \E p \in ScheduledPayments : ProviderCall(p)
    \/ \E p \in ScheduledPayments : ProviderResponse(p, TRUE)
    \/ \E p \in ScheduledPayments : AttemptResult(p)
    \/ \E p \in ScheduledPayments : FinalStatus(p)
    \/ \E p \in ScheduledPayments : FinalStatusCommit(p)
    \/ \E p \in ScheduledPayments : PublishOutcome(p, TRUE)

AttemptSpec == Init /\ [][AttemptNext]_vars

\* the payment service whose threads keep running, against a provider that
\* answers every call and a broker that is available again and again: weak
\* fairness on every step of a thread, strong fairness on the acknowledged
\* publish of every payment
PayThreadStep(p) ==
    \/ StartProcessing(p)
    \/ StartProcessingCommit(p)
    \/ AttemptCheck(p)
    \/ AttemptRecord(p)
    \/ ProviderCall(p)
    \/ \E ok \in BOOLEAN : ProviderResponse(p, ok)
    \/ AttemptResult(p)
    \/ FinalStatus(p)
    \/ FinalStatusCommit(p)
    \/ \E acked \in BOOLEAN : PublishOutcome(p, acked)

CreatorStep(c) ==
    \/ create_payment_record(c)
    \/ CreatePaymentRollback(c)
    \/ CreatePaymentAbort(c)
    \/ CreatePaymentCommit(c)

PayLiveSpec ==
    /\ Init
    /\ [][PayNext]_vars
    /\ \A p \in PaymentIds : WF_vars(PayThreadStep(p))
    /\ \A c \in Creators : WF_vars(CreatorStep(c))
    /\ \A p \in PaymentIds : SF_vars(PublishOutcome(p, TRUE))
    /\ WF_vars(TimePasses)
    /\ WF_vars(TimeoutElapses)

\* the notification service: its consumer thread on order-events and
\* payment-events, every event delivered any number of times
NotifyNext ==
    \/ \E event_type \in EventTypes, o \in OrderIds : handle_event(event_type, o)
    \/ get_template
    \/ RenderTemplate
    \/ save_notification

NotifySpec == Init /\ [][NotifyNext]_vars

NotifyConsumerStep ==
    \/ get_template
    \/ RenderTemplate
    \/ save_notification

\* the consumer thread beside the HTTP route and the threads it starts
DispatchNext ==
    \/ NotifyNext
    \/ \E channels \in RequestChannels : send_notification(channels)
    \/ \E n \in NotificationIds : send_notification_async(n)

DispatchSpec == Init /\ [][DispatchNext]_vars

\* every started handler and every started thread runs on
DispatchLiveSpec ==
    /\ Init
    /\ [][DispatchNext]_vars
    /\ WF_vars(NotifyConsumerStep)
    /\ \A n \in NotificationIds : WF_vars(send_notification_async(n))

\* one consumer thread in its consume_events loop beside the producers of
\* the topic
ConsumerNext ==
    \/ \E raises \in BOOLEAN : ProduceMessage(raises)
    \/ process_events
    \/ ConsumerIterate
    \/ BudgetCheck
    \/ Dispatch

ConsumerSpec == Init /\ [][ConsumerNext]_vars

\* the handlers' order id resolution over events of either spelling
ResolveNext ==
    \E event_type \in NotificationTypes, key \in {"orderId", "order_id"}, order \in OrderIds :
        DeliverEvent(event_type, key, order)

ResolveSpec == Init /\ [][ResolveNext]_vars

\* a create-order request with any body beside an admin who changes the menu
CalcNext ==
    \/ \E has_fields \in BOOLEAN, its \in ItemLists : create_order(has_fields, its)
    \/ get_pizza_details
    \/ create_order_with_outbox
    \/ \E p \in PizzaIds, price \in Prices : update_pizza(p, price)

CalcSpec == Init /\ [][CalcNext]_vars

\* ================================================================== claims
Range(s) == {s[i] : i \in 1..Len(s)}

FirstIndex(s, x) == CHOOSE i \in 1..Len(s) : s[i] = x /\ \A j \in 1..(i - 1) : s[j] # x

AllowedTransitions ==
    {<<"NONE", "PENDING">>, <<"PENDING", "PAID">>, <<"PENDING", "FAILED">>, <<"PAID", "COMPLETED">>}

\* C1: every status write of an order (PUT status, OrderPaid, PaymentFailed)
\* follows PENDING->PAID, PENDING->FAILED or PAID->COMPLETED; a PAID order is
\* never FAILED afterwards and a FAILED order never PAID.
C1_StatusFollowsDag ==
    [][\A o \in OrderIds :
          (pend'.orders[o] # NoWrite /\ pend'.orders[o] # pend.orders[o] /\ pend'.orders[o] # ViewStatus(o))
             => <<ViewStatus(o), pend'.orders[o]>> \in AllowedTransitions]_vars

CreatedRows(o) ==
    {i \in 1..Len(outbox) : outbox[i].aggregate_id = o /\ outbox[i].event_type = "OrderCreated"}

\* C2: every committed order row has exactly one committed OrderCreated outbox
\* row, and an aborted create_order_with_outbox leaves no order row, no item
\* rows and no outbox row, whatever the interleaving of the service's threads.
C2_OrderAndOutboxAtomic ==
    /\ \A o \in OrderIds : orders[o] # "NONE" => Cardinality(CreatedRows(o)) = 1
    /\ \A o \in aborted : orders[o] = "NONE" /\ o \notin items /\ CreatedRows(o) = {}

C6_ProcessedRowsWerePublished ==
    \A i \in 1..Len(outbox) :
        outbox[i].processed => outbox[i].processed_at /\ outbox[i].id \in Range(orderEvents)

C6_OnlyMarkAfterPublishSetsProcessed ==
    \A i \in 1..Len(outbox) :
        (~outbox[i].processed /\ outbox'[i].processed)
            => /\ relay.pc = "mark"
               /\ Head(relay.batch) = outbox[i].id
               /\ outbox[i].id \in Range(orderEvents)

\* C6: a processed outbox row has processed_at set and was published
\* successfully at least once; a row turns processed only in the mark step
\* that follows its successful publish, so a row whose publish failed on every
\* retry or whose relay crashed before the mark stays unprocessed.
C6_ProcessedImpliesPublished ==
    []C6_ProcessedRowsWerePublished /\ [][C6_OnlyMarkAfterPublishSetsProcessed]_vars

\* a published row is left unprocessed by a crash while another row is processed
C6_Witness ==
    /\ crashes > 0
    /\ \E i, j \in 1..Len(outbox) :
          /\ outbox[i].processed /\ outbox[i].processed_at
          /\ ~outbox[j].processed /\ outbox[j].id \in Range(orderEvents)

InOutbox(id) == \E i \in 1..Len(outbox) : outbox[i].id = id

Processed(id) == \E i \in 1..Len(outbox) : outbox[i].id = id /\ outbox[i].processed

Publishable(id) == \E i \in 1..Len(outbox) : outbox[i].id = id /\ ~outbox[i].big

\* C7: every committed outbox row eventually becomes processed under a relay
\* that keeps running, also behind rows whose publish keeps failing.  Stated
\* for the rows the broker accepts: a row the broker refuses on every attempt
\* cannot become processed by any relay.
C7_EveryRowEventuallyProcessed ==
    \A id \in 1..MaxOps : Publishable(id) ~> Processed(id)

\* C8: of two outbox rows of one aggregate the earlier one is published
\* successfully first, also when its publish fails on all retries in a batch.
C8_PerAggregatePublishOrder ==
    \A i, j \in 1..Len(outbox) :
        (i < j /\ outbox[i].aggregate_id = outbox[j].aggregate_id /\ outbox[j].id \in Range(orderEvents))
            => /\ outbox[i].id \in Range(orderEvents)
               /\ FirstIndex(orderEvents, outbox[i].id) < FirstIndex(orderEvents, outbox[j].id)

PaymentRows(o) == {p \in PaymentIds : PaymentView(p).status # "NONE" /\ PaymentView(p).order = o}

\* C3: at most one payment row exists per order_id, committed or in the open
\* transaction, for every interleaving of the consumer thread handling
\* OrderCreated with HTTP threads handling POST /api/v1/payments.
C3_OnePaymentPerOrder ==
    \A o \in OrderIds :
        /\ Cardinality(PaymentRows(o)) <= 1
        /\ Cardinality({p \in PaymentIds : payments[p].status # "NONE" /\ payments[p].order = o}) <= 1

\* two creators passed the gate for one order; one row is committed and the
\* other creator's INSERT was refused
C3_Witness ==
    \E o \in OrderIds, c \in Creators :
        /\ creator[c].pc = "abort" /\ creator[c].order = o
        /\ \E p \in PaymentIds : payments[p].status # "NONE" /\ payments[p].order = o

\* C4: for every order_id the provider answers HTTP 200 at most once, whatever
\* the number of OrderCreated deliveries and POST /api/v1/payments requests.
C4_NoDoubleCharge ==
    \A o \in OrderIds : provider200[o] <= 1

\* an order delivered more than once was charged
C4_Witness ==
    \E o \in OrderIds : provider200[o] = 1 /\ deliveries[o] >= 2

RowExistsFor(o) ==
    \E p \in PaymentIds :
        \/ payments[p].status # "NONE" /\ payments[p].order = o /\ ppend.payments[p].status = NoWrite
        \/ ppend.payments[p].status \notin {NoWrite, "NONE"} /\ ppend.payments[p].order = o

\* C5: a delivery of OrderCreated or a POST /api/v1/payments for an order that
\* has a payment row creates no payment row, starts no thread, makes no
\* provider call and publishes no event: the handler returns at the gate.
C5_LaterDeliveryDoesNothing ==
    [][\A o \in OrderIds :
          (deliveries'[o] = deliveries[o] + 1 /\ RowExistsFor(o))
             => /\ UNCHANGED <<payments, attempts, nextPaymentId, nextAttemptId, creator,
                              pthread, providerCalls, provider200, paymentEvents>>
                /\ \A p \in PaymentIds : ppend'.payments[p] \in {ppend.payments[p], KeepPayment}]_vars

\* an order with a payment row was delivered again and no second id was drawn
C5_Witness ==
    \E o \in OrderIds : deliveries[o] >= 2 /\ RowExistsFor(o) /\ nextPaymentId = 2

AttemptRows(p) == {a \in AttemptIds : AttemptView(a).status # "NONE" /\ AttemptView(a).payment_id = p}

CommittedAttemptRows(p) == {a \in AttemptIds : attempts[a].status # "NONE" /\ attempts[a].payment_id = p}

\* C9: the attempt_number values of the payment_attempts rows of one payment
\* are exactly 1..k, without gaps or duplicates, in the committed table and
\* in the table as the service's connection reads it.
C9_AttemptNumbersContiguous ==
    \A p \in PaymentIds :
        /\ {AttemptView(a).attempt_number : a \in AttemptRows(p)} = 1..Cardinality(AttemptRows(p))
        /\ {attempts[a].attempt_number : a \in CommittedAttemptRows(p)} = 1..Cardinality(CommittedAttemptRows(p))

\* an attempt row was lost to a rollback and the payment has attempt rows again
C9_Witness ==
    \E p \in PaymentIds, a \in AttemptIds :
        /\ a < nextAttemptId /\ AttemptView(a).status = "NONE"
        /\ pthread[p].attempt_id > a
        /\ pthread[p].attempt_id \in AttemptRows(p)

\* C10: from CLOSED with failure_count 0, failure_threshold record_failure
\* calls without a record_success make can_execute refuse until the timeout
\* has elapsed since the last failure; fewer leave the breaker CLOSED and
\* admitting; record_success while CLOSED resets failure_count to 0.
C10_BreakerTripsAtThreshold ==
    /\ (run >= failure_threshold /\ cb.timer # "past") => ~can_execute(cb)
    /\ (run >= failure_threshold /\ cb.timer # "past" /\ lastCall.method = "can_execute") => ~lastCall.returned
    /\ (run >= 0 /\ run < failure_threshold) => (cb.state = "CLOSED" /\ can_execute(cb))
    /\ (lastCall.method = "record_success" /\ cb.state = "CLOSED") => cb.failure_count = 0

\* exactly failure_threshold failures in a row and a refused can_execute
C10_Witness ==
    run = failure_threshold /\ lastCall.method = "can_execute" /\ ~lastCall.returned

FailedAttempts == SumUpTo([p \in PaymentIds |-> pthread[p].attempt], MaxPaymentIds)

\* C11: with a provider that fails every call the breaker's failure counter
\* advances by exactly one per failed payment attempt: it equals the number
\* of failed attempts whenever no attempt is half-way through its
\* bookkeeping, so the breaker is CLOSED after fewer than failure_threshold
\* failed attempts.
C11_OneFailurePerFailedAttempt ==
    ((\A o \in OrderIds : provider200[o] = 0) /\ (\A p \in PaymentIds : pthread[p].pc # "after_call"))
        => /\ cb.failure_count = FailedAttempts
           /\ FailedAttempts < failure_threshold => cb.state = "CLOSED"

\* C12: while the breaker is OPEN the admission check of a payment attempt
\* rejects until `timeout` has passed and then moves the breaker to HALF_OPEN
\* and admits the attempt; a rejected attempt leaves last_failure_time, and
\* with it the moment of re-admission, as it was.
C12_RejectionsDoNotPostpone ==
    [][\A p \in PaymentIds :
          (pthread[p].pc = "check" /\ pthread'[p] # pthread[p] /\ cb.state = "OPEN")
             => IF cb.timer = "past"
                  THEN cb'.state = "HALF_OPEN" /\ pthread'[p].pc = "record"
                  ELSE pthread'[p].pc # "record" /\ cb'.state = "OPEN" /\ cb'.timer = cb.timer]_vars

SuccessfulProviderCalls == SumUpTo(provider200, MaxOrders)

\* C13: a HALF_OPEN breaker returns to CLOSED, with failure_count 0, exactly
\* when success_threshold provider calls have succeeded: success_count never
\* exceeds the number of successful provider calls, and the step to CLOSED
\* is taken with at least success_threshold of them.
C13_ClosesAfterThresholdSuccesses ==
    [][/\ cb'.state = "HALF_OPEN" => cb'.success_count <= SuccessfulProviderCalls'
       /\ (cb.state = "HALF_OPEN" /\ cb'.state = "CLOSED")
             => (SuccessfulProviderCalls' >= success_threshold /\ cb'.failure_count = 0)]_vars

\* C14: whenever the breaker is HALF_OPEN a record_failure moves it to OPEN
\* and sets last_failure_time, whatever led to HALF_OPEN, a success recorded
\* by a concurrent payment thread while the breaker was OPEN included.
C14_HalfOpenFailureReopens ==
    [][(cb.state = "HALF_OPEN" /\ cb'.failure_count > cb.failure_count)
          => (cb'.state = "OPEN" /\ cb'.timer = "now")]_vars

AttemptSteps == {"check", "record", "call", "response", "after_call"}

C16_PaidOnlyAfterCompleted ==
    /\ \A p \in PaymentIds :
          PaymentView(p).status = "COMPLETED" => provider200[PaymentView(p).order] >= 1
    /\ \A i \in 1..Len(paymentEvents) :
          paymentEvents[i].event_type = "OrderPaid"
             => payments[paymentEvents[i].payment_id].status = "COMPLETED"
\* the PaymentFailed events on payment-events that belong to payment p
PaymentFailedEvents(p) ==
    {i \in 1..Len(paymentEvents) :
        paymentEvents[i].event_type = "PaymentFailed" /\ paymentEvents[i].payment_id = p}

\* process_payment_async has ended for p after max_retry_attempts attempts raised
AllAttemptsFailed(p) ==
    /\ pthread[p].pc = "finished"
    /\ pthread[p].attempt = max_retry_attempts
    /\ payments[p].status # "NONE"

\* C17: when every one of the max_retry_attempts attempts of a payment failed,
\* the payment ends FAILED with a non-empty failure_reason, and exactly one
\* PaymentFailed event, carrying that failure_reason, is on payment-events.
C17_ExhaustedRetriesFailOnce ==
    \A p \in PaymentIds :
        AllAttemptsFailed(p)
           => /\ payments[p].status = "FAILED"
              /\ payments[p].failure_reason # ""
              /\ Cardinality(PaymentFailedEvents(p)) = 1
              /\ \A i \in PaymentFailedEvents(p) :
                    paymentEvents[i].failure_reason = payments[p].failure_reason

\* the same without the publish: the broker may refuse the event, the status
\* and the reason of a published event are still required
C17_FailedStatusAndReason ==
    \A p \in PaymentIds :
        AllAttemptsFailed(p)
           => /\ payments[p].status = "FAILED"
              /\ Cardinality(PaymentFailedEvents(p)) <= 1
              /\ \A i \in PaymentFailedEvents(p) : paymentEvents[i].failure_reason # ""

\* the status changes of a payment row that the state machine allows; NONE is
\* the row before its INSERT
PaymentTransitions ==
    {<<"NONE", "PENDING">>, <<"PENDING", "PROCESSING">>,
     <<"PROCESSING", "COMPLETED">>, <<"PROCESSING", "FAILED">>}

\* C18: the committed status of a payment only moves PENDING -> PROCESSING ->
\* COMPLETED or PROCESSING -> FAILED: it never skips PROCESSING, never leaves
\* COMPLETED or FAILED and never goes back, whatever statement or publish fails
\* during process_payment_async.
C18_PaymentStatusMonotone ==
    [][\A p \in PaymentIds :
          payments'[p].status # payments[p].status
             => <<payments[p].status, payments'[p].status>> \in PaymentTransitions]_vars

\* the outcome event of payment p is on payment-events
OutcomePublished(p, event_type) ==
    \E i \in 1..Len(paymentEvents) :
        paymentEvents[i].payment_id = p /\ paymentEvents[i].event_type = event_type

\* C19: every payment that reaches an outcome eventually has the matching event
\* on payment-events (OrderPaid for COMPLETED, PaymentFailed for FAILED), with
\* threads that keep running and a broker that is available again and again; a
\* publish that fails once does not lose the event.
C19_OutcomeEventuallyPublished ==
    \A p \in PaymentIds :
        /\ (payments[p].status = "COMPLETED") ~> OutcomePublished(p, "OrderPaid")
        /\ (payments[p].status = "FAILED") ~> OutcomePublished(p, "PaymentFailed")

\* the Notification rows of one order and one event type
NotificationRows(o, event_type) ==
    {n \in NotificationIds :
        /\ notifications[n].status # "NONE"
        /\ notifications[n].order_id = o
        /\ notifications[n].template_type = event_type}

\* C20: however often OrderCreated, OrderPaid or PaymentFailed of an order is
\* delivered to the notification service, at most one Notification row exists
\* for the order and the event.
C20_OneNotificationPerEvent ==
    \A o \in OrderIds, event_type \in NotificationTypes :
        Cardinality(NotificationRows(o, event_type)) <= 1

\* the committed OrderStatusChanged rows of order o that announce status s
StatusChangedRows(o, s) ==
    {i \in 1..Len(outbox) :
        /\ outbox[i].event_type = "OrderStatusChanged"
        /\ outbox[i].aggregate_id = o
        /\ outbox[i].newStatus = s}

\* C21: a redelivered OrderPaid or PaymentFailed is a no-op in the order
\* service: with the consumer as the only writer of status changes, the outbox
\* never holds a second OrderStatusChanged row for the same order and status.
C21_RedeliveryAppendsNothing ==
    \A o \in OrderIds, s \in {"PAID", "FAILED"} :
        Cardinality(StatusChangedRows(o, s)) <= 1

\* how often the message at offset m was passed to the handler
TimesDispatched(m) == Cardinality({i \in 1..Len(kc.dispatched) : kc.dispatched[i] = m})

\* C22: every message the consumer has taken from the log (its position is
\* past it) has been passed to the handler exactly once, or is the message the
\* loop holds and has not dispatched yet; no message is dispatched twice.
C22_ConsumedIsDispatchedOnce ==
    \A m \in 1..Len(log) :
        /\ TimesDispatched(m) <= 1
        /\ (m < kc.position /\ m # kc.message) => TimesDispatched(m) = 1

\* C23: when the handler raises on a message, the loop of process_events goes
\* on to the next message within the same call: it neither ends the call nor
\* gives up a message it has taken.
C23_HandlerFailureKeepsLoop ==
    [][(kc.pc = "handle" /\ log[kc.message] /\ kc' # kc)
          => /\ kc'.pc = "iter"
             /\ kc'.position = kc.position
             /\ kc'.budget = kc.budget
             /\ kc'.dispatched = Append(kc.dispatched, kc.message)]_vars

\* a message on which the handler raised, and a later message dispatched after
\* it in the same call (the budget is still the full one less that message)
C23_Witness ==
    \E i \in 1..Len(kc.dispatched) :
        /\ i < Len(kc.dispatched)
        /\ log[kc.dispatched[i]]
        /\ ~log[kc.dispatched[i + 1]]
        /\ kc.dispatched[i + 1] = kc.dispatched[i] + 1

\* C24: each consumer resolves the order id of an event from either spelling:
\* the order service for OrderPaid and PaymentFailed, the payment service for
\* OrderCreated, the notification service for all three, whether the payload
\* carries the id as orderId or as order_id.
C24_BothSpellingsResolve ==
    \A i \in 1..Len(resolved) :
        LET r == resolved[i] IN
        /\ r.event_data.event_type \in {"OrderPaid", "PaymentFailed"}
              => r.order_service = r.event_data.order
        /\ r.event_data.event_type = "OrderCreated"
              => r.payment_service = r.event_data.order
        /\ r.notification_service = r.event_data.order

\* the consumer of the notification service has finished every delivery of
\* the event of this type for order o, and there was one
HandledByNotifier(o, event_type) ==
    /\ ndeliveries[<<o, event_type>>] >= 1
    /\ ~(nthread.pc # "idle" /\ nthread.order = o /\ nthread.event_type = event_type)

\* C25: an event whose payload lacks a placeholder of its template does not
\* make the notification handler fail: once it is handled, a Notification row
\* of the order and the event type exists.
C25_MissingPlaceholderStillNotifies ==
    \A o \in OrderIds, event_type \in NotificationTypes :
        (HandledByNotifier(o, event_type) /\ ~Renders(event_type, EventKeys(event_type)))
           => NotificationRows(o, event_type) # {}

\* the request body fails validation: a required field is missing, the items
\* list is empty, an item has no pizzaId or names a pizza the menu does not have
FailsValidation(has_fields, item_list) ==
    \/ ~has_fields
    \/ item_list = <<>>
    \/ \E i \in 1..Len(item_list) : item_list[i].pizzaId = 0 \/ item_list[i].pizzaId \notin SamplePizzas

RECURSIVE SumSubtotals(_)
SumSubtotals(rows) ==
    IF rows = <<>> THEN 0 ELSE Head(rows).subtotal + SumSubtotals(Tail(rows))

\* C27: for every committed order, total is the sum of the subtotals of its
\* order_items rows and each subtotal is pizza_price * quantity, also for an
\* items list that names the same pizza more than once.
C27_TotalIsSumOfSubtotals ==
    \A k \in 1..Len(orderRows) :
        /\ orderRows[k].total = SumSubtotals(orderRows[k].order_items)
        /\ \A i \in 1..Len(orderRows[k].order_items) :
              orderRows[k].order_items[i].subtotal
                 = orderRows[k].order_items[i].pizza_price * orderRows[k].order_items[i].quantity

\* C28: every committed order has total >= 0 and every committed order item
\* has quantity >= 1.
C28_TotalAndQuantityBounds ==
    \A k \in 1..Len(orderRows) :
        /\ orderRows[k].total >= 0
        /\ \A i \in 1..Len(orderRows[k].order_items) : orderRows[k].order_items[i].quantity >= 1

\* the relay calls process_single_event for the row at the head of its batch
StartsRow == relay.pc = "next_row" /\ relay'.pc = "publish"

\* the relay ends the row at the head of its batch (marked, or given up)
EndsRow ==
    /\ relay.pc \in {"publish", "mark"}
    /\ relay' # relay
    /\ relay'.pc = "sleep" \/ relay'.batch # relay.batch

\* C29: after SIGTERM or SIGINT the relay starts no further outbox row; the
\* row it is processing is completed, the rest of the batch is left and the
\* run loop fetches no further batch.
C29_NoRowStartedAfterSignal ==
    [][/\ StartsRow => running
       /\ (EndsRow /\ ~running) => relay'.pc = "sleep" /\ relay'.batch = <<>>
       /\ (relay.pc = "sleep" /\ ~running) => relay'.pc \in {"sleep", "stopped"}]_vars

\* OrderStatusChanged rows of order o that this step adds to the committed outbox
NewStatusChangedRows(o) ==
    {i \in (Len(outbox) + 1)..Len(outbox') :
        /\ outbox'[i].event_type = "OrderStatusChanged"
        /\ outbox'[i].aggregate_id = o}

\* C30: a status change of an order and its OrderStatusChanged outbox row are
\* committed together: a step that changes the committed status of an order
\* commits exactly one OrderStatusChanged row of that order, carrying the new
\* status, and a step that commits such a row leaves the order in the status
\* the row announces; a row written for OrderPaid carries 'Payment successful'
\* and one written for PaymentFailed the event's failure_reason.
C30_StatusChangeWithItsOutboxRow ==
    [][\A o \in OrderIds :
          /\ (orders[o] # "NONE" /\ orders'[o] # orders[o]) =>
                /\ Cardinality(NewStatusChangedRows(o)) = 1
                /\ \A i \in NewStatusChangedRows(o) : outbox'[i].newStatus = orders'[o]
          /\ \A i \in NewStatusChangedRows(o) :
                /\ outbox'[i].newStatus = orders'[o]
                /\ outbox'[i].reason \in {"", EventReason("OrderPaid"), EventReason("PaymentFailed")}
                /\ outbox'[i].reason = EventReason("OrderPaid") => outbox'[i].newStatus = "PAID"
                /\ outbox'[i].reason = EventReason("PaymentFailed") => outbox'[i].newStatus = "FAILED"]_vars

\* the step in which update_order_status_internal returns False (rowcount 0)
\* to the PUT route or to the event handler
NotFoundReturns ==
    \/ \E t \in Req : req[t].pc = "u_notfound" /\ req'[t].pc = "idle"
    \/ cons.pc = "u_notfound" /\ cons'.pc = "saga"

\* the step in which handle_payment_event drops an event of unknown type
UnknownEventDropped ==
    /\ cons.pc = "idle" /\ cons' = cons /\ req' = req
    /\ opsStarted' = opsStarted + 1

\* C31: handling an event of unknown type, or an event or PUT status request
\* that names an order id without a row, leaves every order row and the outbox
\* of the database unchanged.
C31_UnknownOrMissingChangesNothing ==
    [][(NotFoundReturns \/ UnknownEventDropped) =>
          orders' = orders /\ outbox' = outbox]_vars

\* the step in which payment p's attempt is refused by the breaker
RefusedAttempt(p) ==
    /\ pthread[p].pc = "check"
    /\ ~can_execute(cb)
    /\ pthread'[p] # pthread[p]

\* C32: an attempt that the circuit breaker refuses at its start makes no
\* request to the provider and inserts no payment_attempts row, and it uses up
\* one of the max_retry_attempts attempts: the next attempt follows unless
\* this was the last one.
C32_RefusedAttemptCountsWithoutCall ==
    [][\A p \in PaymentIds :
          RefusedAttempt(p) =>
             /\ providerCalls' = providerCalls
             /\ attempts' = attempts
             /\ ppend'.attempts = ppend.attempts
             /\ nextAttemptId' = nextAttemptId
             /\ pthread'[p].attempt = pthread[p].attempt + 1
             /\ pthread'[p].pc = IF pthread[p].attempt + 1 < max_retry_attempts
                                   THEN "check" ELSE "fail_update"]_vars

\* all attempts of a payment were refused by the open breaker: no attempt row,
\* no provider call
C32_Witness ==
    \E p \in PaymentIds :
        /\ pthread[p].pc = "fail_update"
        /\ pthread[p].attempt = max_retry_attempts
        /\ AttemptNumbers(p) = {}
        /\ payments[p].status # "NONE"
        /\ providerCalls[payments[p].order] = 0
        /\ cb.state = "OPEN" /\ cb.timer # "past"
        /\ ~ppend.failed

\* notification n was created by save_notification from a consumed event and
\* is still PENDING
PendingFromEvent(n) ==
    /\ notifications[n].status = "PENDING"
    /\ notifications[n].template_type \in NotificationTypes

\* C33: every notification created from a consumed saga event is dispatched:
\* its status eventually leaves PENDING (SENT or FAILED).
C33_EventNotificationLeavesPending ==
    \A n \in NotificationIds :
        PendingFromEvent(n) ~> (notifications[n].status \in {"SENT", "FAILED"})

OutboxIds(rows) == {rows[i].id : i \in 1..Len(rows)}

\* C34: garbage collection deletes only rows with processed = true whose
\* processed_at is older than the retention period; a row with processed =
\* false is never deleted, and every deleted row was published.
C34_GcDeletesOnlyExpiredRows ==
    [][\A i \in 1..Len(outbox) :
          outbox[i].id \notin OutboxIds(outbox') =>
             /\ outbox[i].processed
             /\ outbox[i].processed_at
             /\ outbox[i].id \in aged
             /\ outbox[i].id \in Range(orderEvents)]_vars

\* a published row is gone from the outbox while an unprocessed row is kept
C34_Witness ==
    /\ \E id \in Range(orderEvents) : id \notin OutboxIds(outbox)
    /\ \E i \in 1..Len(outbox) : ~outbox[i].processed

\* a thread that has executed a statement inside `with self.db.transaction()`
\* and has not left the block yet
HoldsWrites(thread) ==
    thread.pc \in {"c_items", "c_outbox", "c_commit", "c_abort", "u_outbox", "u_commit"}

\* C35: the pending writes of the order service's connection are committed or
\* rolled back only by the thread that made them: in a step that ends the
\* open transaction, no thread other than the one leaving its block is inside
\* a transaction block with writes of its own.
C35_OnlyOwnerEndsTransaction ==
    [][(pend # EmptyPend /\ pend' = EmptyPend) =>
          /\ \A t \in Req : HoldsWrites(req[t]) => req'[t] # req[t]
          /\ HoldsWrites(cons) => cons' # cons]_vars

\* process_payment_async has ended for payment p and the connection holds no
\* write that a later commit could still apply
Ended(p) == pthread[p].pc = "finished" /\ ppend = EmptyPayPend

\* C36: the status that handle_payment_event writes for an event on
\* payment-events is backed by the payment service: an event that makes the
\* order PAID exists only if a provider call for that order answered success,
\* and the payment of an event that makes the order FAILED has ended FAILED.
C36_EventStatusBackedByPayment ==
    \A i \in 1..Len(paymentEvents) :
        /\ EventStatus(paymentEvents[i].event_type) = "PAID"
              => provider200[paymentEvents[i].order_id] >= 1
        /\ (EventStatus(paymentEvents[i].event_type) = "FAILED" /\ Ended(paymentEvents[i].payment_id))
              => payments[paymentEvents[i].payment_id].status = "FAILED"

\* C37: for every payment at most one of the events OrderPaid and
\* PaymentFailed is ever on payment-events, also when update_payment_status
\* or the publish fails inside process_payment_async.
C37_OneOutcomeKindPerPayment ==
    \A p \in PaymentIds :
        ~(OutcomePublished(p, "OrderPaid") /\ OutcomePublished(p, "PaymentFailed"))

\* the provider answered success, update_payment_status(COMPLETED) raised, and
\* the except clause published PaymentFailed
C37_Witness ==
    \E p \in PaymentIds :
        /\ pthread[p].pc = "finished"
        /\ pthread[p].ok
        /\ OutcomePublished(p, "PaymentFailed")

\* C38: once process_payment_async has finished for a payment, none of its
\* payment_attempts rows is PENDING, at most one is SUCCESS, and a SUCCESS row
\* is the one with the highest attempt_number.
C38_AttemptRowsSettled ==
    \A p \in PaymentIds :
        Ended(p) =>
           /\ \A a \in CommittedAttemptRows(p) : attempts[a].status # "PENDING"
           /\ Cardinality({a \in CommittedAttemptRows(p) : attempts[a].status = "SUCCESS"}) <= 1
           /\ \A a \in CommittedAttemptRows(p) :
                 attempts[a].status = "SUCCESS"
                    => \A b \in CommittedAttemptRows(p) : attempts[b].attempt_number <= attempts[a].attempt_number

\* C39: GET /api/v1/payments/circuit-breaker/status is read-only: in any
\* breaker state the call leaves state, failure_count, success_count and
\* last_failure_time as they were.
C39_StatusRouteReadOnly ==
    [][get_circuit_breaker_status =>
          /\ cb'.state = cb.state
          /\ cb'.failure_count = cb.failure_count
          /\ cb'.success_count = cb.success_count
          /\ cb'.timer = cb.timer]_vars


C40_FlagStaysSet ==
    \A i \in 1..Len(outbox) :
        outbox[i].processed => (Len(outbox') >= i /\ outbox'[i].id = outbox[i].id /\ outbox'[i].processed)

C40_PublishOnlyUnmarked ==
    orderEvents' # orderEvents
        => /\ orderEvents' = Append(orderEvents, Head(relay.batch))
           /\ InOutbox(Head(relay.batch))
           /\ ~Processed(Head(relay.batch))

Publications(id) == Cardinality({k \in 1..Len(orderEvents) : orderEvents[k] = id})

\* C40: the processed flag of an outbox row never returns from true to false,
\* and the relay never publishes a row after mark_event_processed has succeeded
\* for it: every publish, a republication included, is of a row whose mark has
\* not committed.
C40_NoPublishAfterMark ==
    [][C40_FlagStaysSet /\ C40_PublishOnlyUnmarked]_vars

\* a row published twice, its first mark lost in a crash, and processed now
C40_Witness ==
    /\ crashes > 0
    /\ \E i \in 1..Len(outbox) : outbox[i].processed /\ Publications(outbox[i].id) = 2

====
